---- MODULE Spec2Model ----
(***************************************************************************)
(* Model of the incremental extraction engine of the Virtuous connector:   *)
(*   src/virtuous/fetch.py  IDCursor, fetch_page_adaptive,                  *)
(*                          fetch_batch_parallel                            *)
(*   src/virtuous/sync.py   sync_gifts, sync_contacts                       *)
(*   src/virtuous/api.py    request_with_retry                              *)
(* and of the Fundraise Up connector:                                      *)
(*   src/fundraiseup/connector.py  update, sync_entity,                    *)
(*                          sync_donations_with_supporters                  *)
(*   src/fundraiseup/fundraiseup_api.py  api_get                           *)
(* and of the OnGage connector:                                            *)
(*   src/ongage/connector.py  update                                       *)
(*   src/ongage/sync.py     fetch_contacts_with_adaptive_retry              *)
(* Each part has its own specification over the shared variables; the      *)
(* variables a specification does not use stay at their idle value.        *)
(***************************************************************************)
EXTENDS Integers, Sequences, FiniteSets, TLC

VARIABLES
    cursor,      \* IDCursor: [last_id, total_synced]
    cHist,       \* history of the advance calls made on cursor
    faIn,        \* argument of the fetch_page_adaptive call
    faOut,       \* its outcome: [done, raised, records, calls]
    pbIn,        \* fetch_batch_parallel: the endpoint and extract_id of the call
    pbPc,        \* "idle", "waiting" (futures submitted), "returned", "raised"
                 \* ("unused" where no call of fetch_batch_parallel is made)
    pbPending,   \* slots whose future has not completed
    pbResults,   \* results: <<page_skip, records>> in completion order
    pbOut,       \* (all_records, max_id, reached_end) returned, or the exception
    syUp,        \* sync_gifts / sync_contacts: the entity and the upstream list
    syState,     \* the state dict of the running call
    syCkpt,      \* the state of the last checkpoint operation (the resume point)
    syPc,        \* where the generator stands
    syLoc,       \* its local variables
    syOps,       \* operations yielded by the running call, in order
    syEmitted,   \* rows upserted into the destination, over all runs
    syRun,       \* bookkeeping: rows buffered by this run, crashes so far
    retry,       \* request_with_retry: the locals of the call and its outcome
    fu,          \* Fundraise Up update(): configuration, state, manager, locals,
                 \* and the operations and fetches of the run
    apiGet,      \* Fundraise Up api_get: the locals of the call and its outcome
    og,          \* OnGage update(): lists, state, position, operations yielded
    ar           \* OnGage fetch_contacts_with_adaptive_retry: the call stack

vars == <<cursor, cHist, faIn, faOut, pbIn, pbPc, pbPending, pbResults, pbOut,
          syUp, syState, syCkpt, syPc, syLoc, syOps, syEmitted, syRun, retry, fu,
          apiGet, og, ar>>

syncVars == <<syUp, syState, syCkpt, syPc, syLoc, syOps, syEmitted, syRun>>

adaptiveVars == <<faIn, faOut>>
cursorVars == <<cursor, cHist>>
parallelVars == <<pbIn, pbPc, pbPending, pbResults, pbOut>>
laterVars == <<apiGet, og, ar>>
restVars == <<retry, fu, laterVars>>

(***************************************************************************)
(* Optional[int]: None is the empty tuple, a present value x is <<x>>.     *)
(***************************************************************************)
None == <<>>
Some(x) == <<x>>
Val(o) == o[1]

Max2(a, b) == IF a >= b THEN a ELSE b
Min2(a, b) == IF a <= b THEN a ELSE b

(***************************************************************************)
(* IDCursor (fetch.py 43-72)                                               *)
(***************************************************************************)
MaxId == 3          \* ids passed to advance are 0..MaxId
MaxCount == 2       \* counts passed to advance are 0..MaxCount
MaxAdvances == 3    \* advance calls per run

\* faulty variant: last_id is overwritten without the comparison
advance_noguard(c, new_max_id, count) ==
    [last_id |-> Some(new_max_id), total_synced |-> c.total_synced + count]

advance(c, new_max_id, count) ==
    [last_id |-> IF c.last_id = None \/ new_max_id > Val(c.last_id)
                 THEN Some(new_max_id) ELSE c.last_id,
     total_synced |-> c.total_synced + count]

NewCursor == [last_id |-> None, total_synced |-> 0]

\* history of a cursor: the cursor at construction and before the last
\* advance, the ids and counts passed; entity_type; phase: "new" (no cursor
\* constructed), "loaded", "saved", "reloaded" (constructed from a state the
\* cursor was saved to), "cleared"; saved: the cursor as last saved; before:
\* the state dict before the last clear_from_state
NoHist == [init |-> NewCursor, prev |-> NewCursor, ids |-> {}, counts |-> 0, calls |-> 0,
           entity_type |-> "none", phase |-> "loaded", saved |-> NewCursor,
           before |-> <<>>, clears |-> 0]

IdleCursor == cursor = NewCursor /\ cHist = NoHist

NoEndpoint == [n |-> 0, fail |-> "none", p |-> 0, fault |-> ""]

NotFetched == [done |-> FALSE, raised |-> "", records |-> <<>>, calls |-> <<>>]

IdleAdaptive ==
    /\ faIn = [ep |-> NoEndpoint, skip |-> 0, take |-> 0]
    /\ faOut = NotFetched

NoBatch == [raised |-> "", all_records |-> <<>>, max_id |-> None, reached_end |-> FALSE]

IdleParallel ==
    /\ pbIn = [ep |-> NoEndpoint, nLast |-> 0, ids |-> "asc"]
    /\ pbPc = "unused"
    /\ pbPending = {}
    /\ pbResults = <<>>
    /\ pbOut = NoBatch

EmptyDict == <<>>

\* futures: the slots whose future has not completed; results: the pages
\* collected from the completed ones, in completion order
NoLocals == [skip |-> 0, date_cursor |-> None, total |-> 0, batch_buffer |-> <<>>,
             reached_end |-> FALSE, last_gift_date |-> None, i |-> 0,
             futures |-> {}, results |-> <<>>]

\* bookkeeping of a run: the state dict it was started with, the rows it has
\* buffered (appended: every append, in order), the crashes before it and
\* whether one of them came after the upserts of a flush and before its
\* checkpoint, the rounds it has submitted, and for the round in progress
\* the number of operations yielded and the state dict when it was
\* submitted, its position (date cursor, skip) and whether a fetch raised;
\* fullPages: the full pages the run has processed
NoRun == [start |-> EmptyDict, buffered |-> {}, appended |-> <<>>,
          crashes |-> 0, crashedAfterUpserts |-> FALSE,
          rounds |-> 0, roundOps |-> 0, roundState |-> EmptyDict,
          roundPos |-> <<>>, raised |-> FALSE, fullPages |-> 0]

IdleSync ==
    /\ syUp = [entity |-> "none", dates |-> <<>>, n |-> 0, shape |-> "plain",
               cfg |-> [page_size |-> 0, parallel_requests |-> 0, batch_size |-> 0]]
    /\ syState = EmptyDict
    /\ syCkpt = EmptyDict
    /\ syPc = "idle"
    /\ syLoc = NoLocals
    /\ syOps = <<>>
    /\ syEmitted = {}
    /\ syRun = NoRun

\* request_with_retry before a call: attempt is the loop variable; bound
\* tells whether the locals limit, remaining, reset_ts have been assigned;
\* hist lists what each rq.request did; exc is the exception raised
NoRetry == [pc |-> "idle", attempt |-> 0, bound |-> FALSE, hist |-> <<>>,
            exc |-> <<>>, slept |-> 0]

\* the Fundraise Up connector (src/fundraiseup/connector.py) before update()
NoFu == [pc |-> "idle"]

\* api_get before a call
NoApiGet == [pc |-> "idle"]

\* the OnGage connector (src/ongage/connector.py) before update()
NoOg == [pc |-> "idle"]

\* fetch_contacts_with_adaptive_retry before a call
NoAr == [pc |-> "idle"]

IdleLater == apiGet = NoApiGet /\ og = NoOg /\ ar = NoAr

IdleRest == retry = NoRetry /\ fu = NoFu /\ IdleLater

CursorInit ==
    /\ \E l \in {None} \cup {Some(i) : i \in 0..MaxId}, t \in 0..1 :
           /\ cursor = [last_id |-> l, total_synced |-> t]
           /\ cHist = [NoHist EXCEPT
                          !.init = [last_id |-> l, total_synced |-> t],
                          !.prev = [last_id |-> l, total_synced |-> t]]
    /\ IdleAdaptive
    /\ IdleParallel
    /\ IdleSync
    /\ IdleRest

Advance ==
    /\ cHist.calls < MaxAdvances
    /\ \E new_max_id \in 0..MaxId, count \in 0..MaxCount :
           /\ cursor' = advance(cursor, new_max_id, count)
           /\ cHist' = [cHist EXCEPT !.prev = cursor,
                                     !.ids = @ \cup {new_max_id},
                                     !.counts = @ + count,
                                     !.calls = @ + 1]
    /\ UNCHANGED <<adaptiveVars, parallelVars, syncVars, restVars>>

CursorNext == Advance

SpecCursor == CursorInit /\ [][CursorNext]_vars

(***************************************************************************)
(* The page query seen by fetch_page_adaptive (query_fn: api.query_gifts / *)
(* api.query_contacts through request_with_retry).  An endpoint ep is      *)
(*   n     number of records of the queried view, record j is at offset    *)
(*         j - 1 (j in 1..n)                                               *)
(*   fail  which calls fail: "none", "all", "big" (take > p), "poison"     *)
(*         (the window holds record p), "bigskip" (skip >= p)              *)
(*   fault what a failing call raises                                      *)
(***************************************************************************)
TAKE_SIZES == <<1000, 500, 250, 50, 10, 1>>

\* Exception classes a page query raises, with their base classes
\* (requests.exceptions: HTTPError, ConnectionError < RequestException).
Faults == {"HTTPError_500", "HTTPError_401", "ConnectionError", "KeyError"}

ExceptionBases(cls) ==
    CASE cls = "HTTPError_500" -> {"HTTPError", "RequestException", "Exception"}
      [] cls = "HTTPError_401" -> {"HTTPError", "RequestException", "Exception"}
      [] cls = "ConnectionError" -> {"ConnectionError", "RequestException", "Exception"}
      [] OTHER -> {cls, "Exception"}

\* faulty variant: only transient failures (5xx, connection) are caught
IsRequestException_transient(cls) ==
    cls \in {"HTTPError_500", "ConnectionError"}

\* `except RequestException` of fetch_page_adaptive
IsRequestException(cls) == "RequestException" \in ExceptionBases(cls)

Fails(ep, skip, take) ==
    CASE ep.fail = "none" -> FALSE
      [] ep.fail = "all" -> TRUE
      [] ep.fail = "big" -> take > ep.p
      [] ep.fail = "poison" -> skip < ep.p /\ ep.p <= skip + take
      [] ep.fail = "bigskip" -> skip >= ep.p

Row(j) == <<"row", j>>
ErrorRecord(skip, take, msg) == <<"err", skip, take, msg>>
IsErrorRecord(r) == r[1] = "err"

\* query_fn(skip=skip, take=take): the response, or the exception raised
query_fn(ep, skip, take) ==
    IF Fails(ep, skip, take)
    THEN [raised |-> ep.fault, list |-> <<>>]
    ELSE LET k == Max2(0, Min2(take, ep.n - skip))
         IN  [raised |-> "", list |-> [j \in 1..k |-> Row(skip + j)]]

_extract_list(response) == response.list

_build_error_record(skip, take, error) == ErrorRecord(skip, take, error)

IndexOf(seq, x) == CHOOSE i \in 1..Len(seq) : seq[i] = x /\ \A j \in 1..(i-1) : seq[j] # x
Range(seq) == {seq[i] : i \in 1..Len(seq)}

\* faulty variant: the sub-windows are laid out with the parent's take as stride
SubSkip_stride(skip, i, take, smaller_take) == skip + i * take

\* sub_skip = skip + (i * smaller_take), i counted from 0
SubSkip(skip, i, take, smaller_take) == skip + i * smaller_take

\* faulty variant: the base case drops the failed window
BaseCase_drop(skip, take, error) == <<>>

\* the base case: one ErrorRecord for the failed window
BaseCase(skip, take, error) == <<_build_error_record(skip, take, error)>>

RECURSIVE fetch_page_adaptive(_, _, _)
RECURSIVE fetch_sub_pages(_, _, _, _, _, _)

\* The result is [raised, records, calls]: raised is "" on a normal return and
\* the exception class otherwise; calls lists the query_fn calls made, in order.
fetch_page_adaptive(ep, skip, take) ==
    LET response == query_fn(ep, skip, take)
        call == <<(<<skip, take>>)>>
    IN  IF response.raised = ""
        THEN [raised |-> "", records |-> _extract_list(response), calls |-> call]
        ELSE IF ~IsRequestException(response.raised)
        THEN [raised |-> response.raised, records |-> <<>>, calls |-> call]
        ELSE LET next_idx == IF take \in Range(TAKE_SIZES)
                             THEN IndexOf(TAKE_SIZES, take) + 1
                             ELSE Len(TAKE_SIZES) + 1
             IN  IF next_idx > Len(TAKE_SIZES)
                 THEN [raised |-> "",
                       records |-> BaseCase(skip, take, response.raised),
                       calls |-> call]
                 ELSE LET smaller_take == TAKE_SIZES[next_idx]
                          num_sub_calls == take \div smaller_take
                      IN  fetch_sub_pages(ep, skip, take, 0, num_sub_calls,
                              [raised |-> "", records |-> <<>>, calls |-> call])

\* the loop `for i in range(num_sub_calls)` from iteration i on
fetch_sub_pages(ep, skip, take, i, num_sub_calls, acc) ==
    IF i >= num_sub_calls THEN acc
    ELSE LET smaller_take == TAKE_SIZES[IndexOf(TAKE_SIZES, take) + 1]
             sub == fetch_page_adaptive(ep, SubSkip(skip, i, take, smaller_take),
                                        smaller_take)
             all_records == acc.records \o sub.records
             calls == acc.calls \o sub.calls
         IN  IF sub.raised # ""
             THEN [raised |-> sub.raised, records |-> <<>>, calls |-> calls]
             ELSE IF /\ sub.records # <<>>
                     /\ ~IsErrorRecord(sub.records[Len(sub.records)])
                     /\ Len(sub.records) < smaller_take
             THEN [raised |-> "", records |-> all_records, calls |-> calls]
             ELSE fetch_sub_pages(ep, skip, take, i + 1, num_sub_calls,
                      [raised |-> "", records |-> all_records, calls |-> calls])

(***************************************************************************)
(* SpecAdaptive: one call of fetch_page_adaptive on a drawn endpoint.      *)
(***************************************************************************)
MaxSkipPages == 1   \* the call starts at skip 0, 1000, .. MaxSkipPages * 1000

AdaptiveEndpoints ==
    {[n |-> n, fail |-> "none", p |-> 0, fault |-> "ConnectionError"] :
        n \in {0, 7, 1000, 1010, 2350}}
    \cup {[n |-> n, fail |-> "all", p |-> 0, fault |-> f] :
        n \in {0, 2350}, f \in Faults}
    \cup {[n |-> n, fail |-> "big", p |-> p, fault |-> f] :
        n \in {1010, 2350}, p \in {500, 10, 1},
        f \in {"HTTPError_500", "HTTPError_401", "KeyError"}}
    \cup {[n |-> n, fail |-> "poison", p |-> p, fault |-> f] :
        n \in {1010, 2350}, p \in {1, 777, 1000, 1001},
        f \in {"HTTPError_500", "HTTPError_401", "KeyError"}}

AdaptiveTakes == Range(TAKE_SIZES) \cup {300}

AdaptiveInit ==
    /\ \E ep \in AdaptiveEndpoints, s \in 0..MaxSkipPages, take \in AdaptiveTakes :
           faIn = [ep |-> ep, skip |-> s * 1000, take |-> take]
    /\ faOut = NotFetched
    /\ IdleCursor
    /\ IdleParallel
    /\ IdleSync
    /\ IdleRest

FetchPage ==
    /\ ~faOut.done
    /\ LET r == fetch_page_adaptive(faIn.ep, faIn.skip, faIn.take)
       IN  faOut' = [done |-> TRUE, raised |-> r.raised, records |-> r.records,
                     calls |-> r.calls]
    /\ UNCHANGED <<faIn, cursorVars, parallelVars, syncVars, restVars>>

AdaptiveNext == FetchPage

SpecAdaptive == AdaptiveInit /\ [][AdaptiveNext]_vars

RECURSIVE ConcatResults(_, _, _)
\* the records of the windows ws[i..], each fetched on its own, in order
ConcatResults(ep, ws, i) ==
    IF i > Len(ws) THEN <<>>
    ELSE fetch_page_adaptive(ep, ws[i][1], ws[i][2]).records
             \o ConcatResults(ep, ws, i + 1)

FirstCallFails == faOut.done /\ Fails(faIn.ep, faIn.skip, faIn.take)

FaultIsRequestException == "RequestException" \in ExceptionBases(faIn.ep.fault)

HasSmallerTake ==
    /\ faIn.take \in Range(TAKE_SIZES)
    /\ IndexOf(TAKE_SIZES, faIn.take) < Len(TAKE_SIZES)

\* C4: Adaptive shrink terminates. Against an endpoint failing every call with a
\* RequestException, fetch_page_adaptive(skip, 1000) returns without raising,
\* makes at most 1+2+4+20+100+1000 query calls and returns 1000 ErrorRecords,
\* one per size-1 window skip, skip+1, .., skip+999, each with take = 1.
C4_AdaptiveShrinkTerminates ==
    (faOut.done /\ faIn.ep.fail = "all" /\ FaultIsRequestException
        /\ faIn.take = 1000) =>
        /\ faOut.raised = ""
        /\ Len(faOut.calls) <= 1 + 2 + 4 + 20 + 100 + 1000
        /\ Len(faOut.records) = 1000
        /\ \A i \in 1..1000 :
               faOut.records[i] = ErrorRecord(faIn.skip + i - 1, 1, faIn.ep.fault)

\* C4 witness: such a call has returned, having made all 1127 query calls.
C4_Witness ==
    /\ faOut.done /\ faIn.ep.fail = "all" /\ faIn.take = 1000
    /\ faIn.ep.fault = "ConnectionError" /\ faIn.skip = 1000
    /\ Len(faOut.calls) = 1127
    /\ faOut.records[1000] = ErrorRecord(1999, 1, "ConnectionError")

C10_SplitIsPartition ==
    (FirstCallFails /\ FaultIsRequestException /\ HasSmallerTake) =>
        LET smaller_take == TAKE_SIZES[IndexOf(TAKE_SIZES, faIn.take) + 1]
            num == faIn.take \div smaller_take
            IsChild(c) == c[2] = smaller_take
            children == SelectSeq(faOut.calls, IsChild)
            last == fetch_page_adaptive(faIn.ep, children[Len(children)][1],
                                        smaller_take)
        IN  /\ num * smaller_take = faIn.take
            /\ Len(children) \in 1..num
            /\ \A i \in 1..Len(children) :
                   children[i] = <<faIn.skip + (i - 1) * smaller_take, smaller_take>>
            /\ Len(children) < num =>
                   \/ faOut.raised # ""
                   \/ Len(last.records) < smaller_take
            /\ faOut.raised = "" =>
                   faOut.records = ConcatResults(faIn.ep, children, 1)

\* C10 witness: a failed size-250 call was split into five size-50 windows that
\* all returned rows.
C10_Witness ==
    /\ FirstCallFails /\ faIn.take = 250 /\ faIn.skip = 1000
    /\ faIn.ep.fail = "big" /\ faIn.ep.p = 10 /\ faIn.ep.n = 2350
    /\ Len(faOut.records) = 250
    /\ faOut.records[250] = Row(1250)
    /\ Len(faOut.calls) = 1 + 5 + 25

\* the records of sub-window i (counted from 0) of the split of the drawn call
SubWindowRecords(i) ==
    LET smaller_take == TAKE_SIZES[IndexOf(TAKE_SIZES, faIn.take) + 1]
    IN  fetch_page_adaptive(faIn.ep, faIn.skip + i * smaller_take,
                            smaller_take).records

\* sub-window i of the split of the drawn call was fetched
SubWindowFetched(i) ==
    LET smaller_take == TAKE_SIZES[IndexOf(TAKE_SIZES, faIn.take) + 1]
    IN  <<faIn.skip + i * smaller_take, smaller_take>> \in Range(faOut.calls)

HasErrorRecord(records) ==
    \E k \in 1..Len(records) : IsErrorRecord(records[k])

\* C11 as stated: within the split of a failed call, the sub-window after a
\* fetched sub-window i is left unfetched if and only if sub-window i returned
\* fewer rows than its take (zero rows included) and neither it nor an earlier
\* sub-window of the split returned an ErrorRecord.
C11_Original ==
    (FirstCallFails /\ FaultIsRequestException /\ HasSmallerTake
        /\ faOut.raised = "") =>
        LET smaller_take == TAKE_SIZES[IndexOf(TAKE_SIZES, faIn.take) + 1]
            num == faIn.take \div smaller_take
            Short(i) == Len(SubWindowRecords(i)) < smaller_take
            ErrorUpTo(i) == \E k \in 0..i : HasErrorRecord(SubWindowRecords(k))
        IN  \A i \in 0..(num - 2) :
                SubWindowFetched(i) =>
                    (SubWindowFetched(i + 1) <=> ~(Short(i) /\ ~ErrorUpTo(i)))

(***************************************************************************)
(* fetch_batch_parallel (fetch.py 215-277)                                 *)
(***************************************************************************)
PAGE_SIZE == 1000
PARALLEL_REQUESTS == 3   \* pool width of the model (8 in fetch.py)

Slots == 0..(PARALLEL_REQUESTS - 1)

\* extract_id, a parameter of fetch_batch_parallel: the id of a row, or None.
\* "asc": ids ascend with the offset; "mixed": unordered ids, some rows
\* without id; "none": no row has an id.
extract_id(ids, record) ==
    CASE ids = "asc" -> Some(record[2])
      [] ids = "none" -> None
      [] ids = "mixed" -> IF record[2] % 3 = 0 THEN None
                          ELSE Some((record[2] * 7) % 1000)

\* The view a slot's queries are answered from: the highest-offset slot may be
\* served after the upstream list has changed (nLast records instead of n).
SlotEndpoint(in, i) ==
    IF i = PARALLEL_REQUESTS - 1 THEN [in.ep EXCEPT !.n = in.nLast] ELSE in.ep

\* the future of slot i: fetch_page_adaptive(skip = i * PAGE_SIZE, take = PAGE_SIZE)
SlotFetch(in, i) == fetch_page_adaptive(SlotEndpoint(in, i), i * PAGE_SIZE, PAGE_SIZE)

RECURSIVE InsertBySkip(_, _)
InsertBySkip(sorted, x) ==
    IF sorted = <<>> THEN <<x>>
    ELSE IF x[1] < sorted[Len(sorted)][1]
         THEN InsertBySkip(SubSeq(sorted, 1, Len(sorted) - 1), x)
                  \o <<sorted[Len(sorted)]>>
         ELSE sorted \o <<x>>

RECURSIVE SortFrom(_, _, _)
SortFrom(results, i, sorted) ==
    IF i > Len(results) THEN sorted
    ELSE SortFrom(results, i + 1, InsertBySkip(sorted, results[i]))

\* faulty variant: results are processed in completion order
SortBySkip_unsorted(results) == results

\* results.sort(key=lambda x: x[0]): stable, ascending page_skip
SortBySkip(results) == SortFrom(results, 1, <<>>)

\* faulty variant: the last id seen wins
UpdateMaxId_last(max_id, record_id) ==
    IF record_id # None THEN record_id ELSE max_id

\* lines 269-270
UpdateMaxId(max_id, record_id) ==
    IF record_id # None /\ (max_id = None \/ Val(record_id) > Val(max_id))
    THEN record_id ELSE max_id

RECURSIVE MaxIdOver(_, _, _, _, _)
\* the loop `for record in records` of lines 264-270 over records[lo..hi], in
\* order (the range is folded half by half to keep the evaluation shallow)
MaxIdOver(ids, records, lo, hi, max_id) ==
    IF lo > hi THEN max_id
    ELSE IF lo = hi
    THEN IF IsErrorRecord(records[lo]) THEN max_id
         ELSE UpdateMaxId(max_id, extract_id(ids, records[lo]))
    ELSE LET mid == (lo + hi) \div 2
             left == MaxIdOver(ids, records, lo, mid, max_id)
         IN  IF left = None
             THEN MaxIdOver(ids, records, mid + 1, hi, None)
             ELSE MaxIdOver(ids, records, mid + 1, hi, left)

\* faulty variant: only an empty page ends the stream
IsShortPage_empty(records) == records = <<>>

\* line 272
IsShortPage(records) == Len(records) < PAGE_SIZE

DropErrors(records) ==
    LET NotError(r) == ~IsErrorRecord(r) IN SelectSeq(records, NotError)

\* faulty variant: only valid rows are kept
Extend_valid(all_records, records) == all_records \o DropErrors(records)

\* line 262
Extend(all_records, records) == all_records \o records

RECURSIVE ScanResults(_, _, _, _)
\* the loop of lines 257-274 over the sorted results from position k on
ScanResults(ids, results, k, acc) ==
    IF k > Len(results) THEN acc
    ELSE LET records == results[k][2]
         IN  IF records = <<>>
             THEN [acc EXCEPT !.reached_end = TRUE]
             ELSE LET acc2 == [acc EXCEPT
                                 !.all_records = Extend(@, records),
                                 !.max_id = MaxIdOver(ids, records, 1, Len(records), @)]
                  IN  IF IsShortPage(records)
                      THEN [acc2 EXCEPT !.reached_end = TRUE]
                      ELSE ScanResults(ids, results, k + 1, acc2)

\* lines 251-277
MergeResults(ids, results) ==
    ScanResults(ids, SortBySkip(results), 1, NoBatch)

ParallelScenarios ==
    {[ep |-> [n |-> n, fail |-> "none", p |-> 0, fault |-> "ConnectionError"],
      nLast |-> n, ids |-> ids] :
        n \in {0, 500, 2350, 1000 * PARALLEL_REQUESTS,
               1000 * PARALLEL_REQUESTS + 500},
        ids \in {"asc", "mixed"}}
    \cup {[ep |-> [n |-> 2350, fail |-> "none", p |-> 0, fault |-> "ConnectionError"],
           nLast |-> 2350, ids |-> "none"]}
    \cup {[ep |-> [n |-> 1000 * PARALLEL_REQUESTS + 500, fail |-> "poison",
                   p |-> p, fault |-> f],
           nLast |-> 1000 * PARALLEL_REQUESTS + 500, ids |-> "mixed"] :
        p \in {777, 1001}, f \in {"HTTPError_500", "KeyError"}}
    \cup {[ep |-> [n |-> 1500, fail |-> "poison", p |-> 777, fault |-> "HTTPError_401"],
           nLast |-> 1500, ids |-> "asc"]}
    \cup {[ep |-> [n |-> 700, fail |-> "all", p |-> 0, fault |-> "ConnectionError"],
           nLast |-> 700, ids |-> "asc"]}
    \cup {[ep |-> [n |-> 1000 * PARALLEL_REQUESTS + 500, fail |-> "big",
                   p |-> 250, fault |-> "ConnectionError"],
           nLast |-> 1000 * PARALLEL_REQUESTS + 500, ids |-> "asc"]}
    \cup {[ep |-> [n |-> 1000 * PARALLEL_REQUESTS + 500, fail |-> "bigskip",
                   p |-> 1000, fault |-> "HTTPError_500"],
           nLast |-> 1000 * PARALLEL_REQUESTS + 500, ids |-> "asc"]}
    \cup {[ep |-> [n |-> n, fail |-> "none", p |-> 0, fault |-> "ConnectionError"],
           nLast |-> 1000 * PARALLEL_REQUESTS, ids |-> ids] :
        n \in {300, 1000}, ids \in {"asc", "mixed"}}

ParallelInit ==
    /\ pbIn \in ParallelScenarios
    /\ pbPc = "idle"
    /\ pbPending = {}
    /\ pbResults = <<>>
    /\ pbOut = NoBatch
    /\ IdleCursor
    /\ IdleAdaptive
    /\ IdleSync
    /\ IdleRest

\* lines 229-243: every slot is submitted to the pool
Submit ==
    /\ pbPc = "idle"
    /\ pbPc' = "waiting"
    /\ pbPending' = Slots
    /\ UNCHANGED <<pbIn, pbResults, pbOut, cursorVars, adaptiveVars, syncVars, restVars>>

\* lines 245-277: as_completed yields the future of slot i; its exception
\* propagates, its records are appended; after the last future the results are
\* sorted and scanned and the call returns.
Complete(i) ==
    /\ pbPc = "waiting"
    /\ i \in pbPending
    /\ LET r == SlotFetch(pbIn, i)
           results == Append(pbResults, <<i * PAGE_SIZE, r.records>>)
       IN  IF r.raised # ""
           THEN /\ pbPc' = "raised"
                /\ pbOut' = [NoBatch EXCEPT !.raised = r.raised]
                /\ UNCHANGED <<pbPending, pbResults>>
           ELSE /\ pbPending' = pbPending \ {i}
                /\ pbResults' = results
                /\ IF pbPending' = {}
                   THEN /\ pbPc' = "returned"
                        /\ pbOut' = MergeResults(pbIn.ids, results)
                   ELSE UNCHANGED <<pbPc, pbOut>>
    /\ UNCHANGED <<pbIn, cursorVars, adaptiveVars, syncVars, restVars>>

ParallelNext == Submit \/ \E i \in Slots : Complete(i)

SpecParallel == ParallelInit /\ [][ParallelNext]_vars

SlotRecords(i) == SlotFetch(pbIn, i).records

RECURSIVE SequentialFetch(_, _, _)
\* the slots from i on fetched one after another in ascending skip order, the
\* scan's end-of-stream cut applied after each
SequentialFetch(in, i, acc) ==
    IF i >= PARALLEL_REQUESTS THEN acc
    ELSE LET records == SlotFetch(in, i).records
         IN  IF records = <<>> THEN acc
             ELSE IF Len(records) < PAGE_SIZE THEN acc \o records
             ELSE SequentialFetch(in, i + 1, acc \o records)

RECURSIVE ConcatSlots(_, _)
\* the records of slots lo..hi, ascending
ConcatSlots(lo, hi) ==
    IF lo > hi THEN <<>> ELSE SlotRecords(lo) \o ConcatSlots(lo + 1, hi)

RECURSIVE ConcatSlotErrors(_, _)
ConcatSlotErrors(lo, hi) ==
    IF lo > hi THEN <<>>
    ELSE SelectSeq(SlotRecords(lo), IsErrorRecord) \o ConcatSlotErrors(lo + 1, hi)

ShortSlots == {i \in Slots : Len(SlotRecords(i)) < PAGE_SIZE}

SetMin(S) == CHOOSE x \in S : \A y \in S : x <= y

\* the last slot the scan keeps: the first short one, or the last slot
LastKept == IF ShortSlots = {} THEN PARALLEL_REQUESTS - 1 ELSE SetMin(ShortSlots)

\* C6: Reordering correctness. Whatever the order in which the slot fetches
\* completed, the records returned are those of the slots fetched one after
\* another in ascending skip order with the same end-of-stream cut.
C6_ReorderingCorrectness ==
    pbPc = "returned" => pbOut.all_records = SequentialFetch(pbIn, 0, <<>>)

\* C6 witness: the slots completed in descending skip order and the records of
\* more than one slot were returned.
C6_Witness ==
    /\ pbPc = "returned"
    /\ \A k \in 1..(Len(pbResults) - 1) : pbResults[k][1] > pbResults[k + 1][1]
    /\ Len(pbOut.all_records) > PAGE_SIZE
    /\ pbOut.all_records[1] = Row(1)

\* C7: End-of-stream detection. reached_end is true exactly when some slot
\* returned fewer than PAGE_SIZE records (none included); the records returned
\* are those of the slots up to and including the first such slot in ascending
\* skip order, and nothing of a higher-offset slot is returned.
C7_EndOfStream ==
    pbPc = "returned" =>
        LET last == LastKept
            bound == (last + 1) * PAGE_SIZE
        IN  /\ pbOut.reached_end = (ShortSlots # {})
            /\ pbOut.all_records = ConcatSlots(0, last)
            /\ \A k \in 1..Len(pbOut.all_records) :
                   LET r == pbOut.all_records[k]
                   IN  IF IsErrorRecord(r) THEN r[2] < bound ELSE r[2] <= bound
            /\ ~pbOut.reached_end =>
                   Len(pbOut.all_records) = PARALLEL_REQUESTS * PAGE_SIZE

\* C7 witness: the second slot was empty, the last slot returned a full page
\* that was discarded.
C7_Witness ==
    /\ pbPc = "returned" /\ pbOut.reached_end
    /\ Len(SlotRecords(0)) = PAGE_SIZE
    /\ SlotRecords(1) = <<>>
    /\ Len(SlotRecords(PARALLEL_REQUESTS - 1)) = PAGE_SIZE
    /\ Len(pbOut.all_records) = PAGE_SIZE

StripErrors(results) ==
    [k \in 1..Len(results) |-> <<results[k][1], DropErrors(results[k][2])>>]

\* C8 as stated: reached_end and max_id are the values the call would return
\* with the ErrorRecords absent from the slot results.
C8_Original ==
    pbPc = "returned" =>
        LET without == MergeResults(pbIn.ids, StripErrors(pbResults))
        IN  /\ pbOut.reached_end = without.reached_end
            /\ pbOut.max_id = without.max_id

\* C8 amended: the ErrorRecords of the kept slots are passed through in the
\* returned records, in order; max_id is never taken from an ErrorRecord; an
\* ErrorRecord counts as a record of its slot when the slot's length is
\* compared with PAGE_SIZE, so reached_end is true exactly when some slot has
\* fewer than PAGE_SIZE rows and ErrorRecords together.
C8_ErrorRecordsPassThrough ==
    pbPc = "returned" =>
        /\ SelectSeq(pbOut.all_records, IsErrorRecord) = ConcatSlotErrors(0, LastKept)
        /\ pbOut.max_id # None =>
               \E k \in 1..Len(pbOut.all_records) :
                   /\ ~IsErrorRecord(pbOut.all_records[k])
                   /\ extract_id(pbIn.ids, pbOut.all_records[k]) = pbOut.max_id
        /\ pbOut.reached_end =
               (\E i \in Slots :
                    Len(DropErrors(SlotRecords(i)))
                      + Len(SelectSeq(SlotRecords(i), IsErrorRecord)) < PAGE_SIZE)

\* C8 witness: the first slot returned 999 rows and one ErrorRecord and was
\* treated as a full page.
C8_Witness ==
    /\ pbPc = "returned"
    /\ Len(pbOut.all_records) > PAGE_SIZE
    /\ IsErrorRecord(pbOut.all_records[777])
    /\ Len(DropErrors(SlotRecords(0))) = PAGE_SIZE - 1
    /\ pbOut.max_id # None

\* C9: max_id is the maximum extract_id over the returned records that are not
\* ErrorRecords, None when none of them has an id; the records of discarded
\* slots do not contribute.
C9_MaxIdOfKeptRecords ==
    pbPc = "returned" =>
        LET keptIds == {extract_id(pbIn.ids, pbOut.all_records[k]) :
                            k \in {j \in 1..Len(pbOut.all_records) :
                                       ~IsErrorRecord(pbOut.all_records[j])}}
                       \ {None}
        IN  /\ (pbOut.max_id = None) = (keptIds = {})
            /\ pbOut.max_id # None =>
                   /\ pbOut.max_id \in keptIds
                   /\ \A x \in keptIds : Val(x) <= Val(pbOut.max_id)

\* C9 witness: a discarded slot held rows with larger ids than max_id.
C9_Witness ==
    /\ pbPc = "returned" /\ pbOut.reached_end
    /\ pbIn.ids = "asc"
    /\ pbOut.max_id = Some(300)
    /\ Len(SlotRecords(PARALLEL_REQUESTS - 1)) = PAGE_SIZE

(***************************************************************************)
(* sync_gifts and sync_contacts (sync.py).  The page size, pool width and  *)
(* batch size are scaled down (1000, 4 and 4000 in sync.py); the batch     *)
(* size stays equal to one full round, as in the source.                   *)
(* The upstream list does not change during a sync.  A gift is its index   *)
(* in the list sorted by gift date, dates[j] its date (0: no giftDate,     *)
(* sorted first); a contact is its index, shape says which child rows      *)
(* every contact has.  The debug flag is_first_record and the per-table    *)
(* counters used for logging are left out.                                 *)
(***************************************************************************)
SYNC_PAGE_SIZE == 2
SYNC_PARALLEL_REQUESTS == 2
SYNC_BATCH_SIZE == 4
MaxRecords == 5     \* records of the upstream list
MaxDate == 2        \* gift dates are 1..MaxDate
MaxCrashes == 1     \* interrupted runs before the one that completes

\* PAGE_SIZE, PARALLEL_REQUESTS and BATCH_SIZE of sync.py (lines 24-28) as the
\* running sync sees them
SyncPageSize == syUp.cfg.page_size
SyncParallelRequests == syUp.cfg.parallel_requests
SyncBatchSize == syUp.cfg.batch_size

\* dict operations on the state: get with default, item assignment, pop
Get(d, k, default) == IF k \in DOMAIN d THEN d[k] ELSE default
Put(d, k, v) == [x \in DOMAIN d \cup {k} |-> IF x = k THEN v ELSE d[x]]
Pop(d, k) == [x \in DOMAIN d \ {k} |-> d[x]]

_extract_gift_date(up, gift) ==
    IF up.dates[gift] = 0 THEN None ELSE Some(up.dates[gift])

\* faulty variant: the filter keeps the gifts dated after gift_date_since only
GiftView_after(up, gift_date_since) ==
    LET Keep(j) == \/ gift_date_since = None
                   \/ up.dates[j] # 0 /\ up.dates[j] > Val(gift_date_since)
    IN  SelectSeq([j \in 1..Len(up.dates) |-> j], Keep)

\* query_gifts: the gifts sorted by gift date, filtered by "Gift Date
\* OnOrAfter gift_date_since" when a date is given
GiftView(up, gift_date_since) ==
    LET Keep(j) == \/ gift_date_since = None
                   \/ up.dates[j] # 0 /\ up.dates[j] >= Val(gift_date_since)
    IN  SelectSeq([j \in 1..Len(up.dates) |-> j], Keep)

ContactView(up) == [j \in 1..up.n |-> j]

PageOf(view, skip) ==
    SubSeq(view, skip + 1, Min2(skip + SyncPageSize, Len(view)))

_fetch_gifts_page(up, skip, gift_date_since) ==
    <<skip, PageOf(GiftView(up, gift_date_since), skip)>>

_fetch_contacts_page(up, skip) == <<skip, PageOf(ContactView(up), skip)>>

\* the rows appended to the buffer for one record, in the order of the code
RowsOf(up, j) ==
    IF up.entity = "gifts" THEN <<(<<"gifts", j>>)>>
    ELSE <<(<<"contacts", j>>)>>
         \o (IF up.shape \in {"addr", "family"}
             THEN <<(<<"addresses", j>>)>> ELSE <<>>)
         \o (IF up.shape = "family"
             THEN <<(<<"individuals", j>>), (<<"contact_methods", j>>)>>
             ELSE <<>>)

RECURSIVE LastDated(_, _, _, _)
\* the date of the last gift of page[lo..hi] that has one, or None
LastDated(up, page, lo, hi) ==
    IF lo > hi THEN None
    ELSE IF lo = hi THEN _extract_gift_date(up, page[lo])
    ELSE LET mid == (lo + hi) \div 2
             right == LastDated(up, page, mid + 1, hi)
         IN  IF right # None THEN right ELSE LastDated(up, page, lo, mid)

\* the loop over the records of one page from record i on (sync.py 229-245,
\* 420-468): the last date seen is kept, the rows of every record are
\* appended in order, the records are counted
AppendRecords(up, page, i, loc) ==
    LET m == Len(page) - i + 1
        r == IF m > 0 THEN Len(RowsOf(up, page[i])) ELSE 0
        rows == [k \in 1..(m * r) |->
                    RowsOf(up, page[i + ((k - 1) \div r)])[((k - 1) % r) + 1]]
        gift_date == IF up.entity = "gifts"
                     THEN LastDated(up, page, i, Len(page)) ELSE None
    IN  [loc EXCEPT
            !.last_gift_date = IF gift_date # None THEN gift_date ELSE @,
            !.batch_buffer = @ \o rows,
            !.total = @ + m]

\* sync.py 252, 473: `if len(gifts) < PAGE_SIZE`
IsPartialPage(page) == Len(page) < SyncPageSize

RECURSIVE ProcessResults(_, _, _, _)
\* `for page_skip, records in results` (sync.py 223-256, 414-478) from k on
ProcessResults(up, results, k, loc) ==
    IF k > Len(results) THEN loc
    ELSE LET page == results[k][2]
         IN  IF page = <<>> THEN [loc EXCEPT !.reached_end = TRUE]
             ELSE LET loc2 == AppendRecords(up, page, 1, loc)
                  IN  IF IsPartialPage(page)
                      THEN [loc2 EXCEPT !.reached_end = TRUE]
                      ELSE ProcessResults(up, results, k + 1, loc2)

\* faulty variant: the position moves one page too far
AdvanceSkip_far(skip) == skip + SyncParallelRequests * SyncPageSize + SyncPageSize

\* sync.py 260, 482
AdvanceSkip(skip) == skip + SyncParallelRequests * SyncPageSize

RECURSIVE LastFullPageEnd_nonempty(_, _, _)
\* faulty variant: the position is set after the last page that holds records
LastFullPageEnd_nonempty(results, k, skip) ==
    IF k < 1 THEN skip
    ELSE IF results[k][2] # <<>>
         THEN results[k][1] + Len(results[k][2])
         ELSE LastFullPageEnd_nonempty(results, k - 1, skip)

RECURSIVE LastFullPageEnd(_, _, _)
\* sync.py 485-488: `for page_skip, contacts in reversed(results)`
LastFullPageEnd(results, k, skip) ==
    IF k < 1 THEN skip
    ELSE IF results[k][2] # <<>> /\ Len(results[k][2]) = SyncPageSize
         THEN results[k][1] + SyncPageSize
         ELSE LastFullPageEnd(results, k - 1, skip)

\* the position after a round (sync.py 258-260, 480-488)
SkipAfterRound(up, results, loc) ==
    IF ~loc.reached_end THEN AdvanceSkip(loc.skip)
    ELSE IF up.entity = "contacts"
         THEN LastFullPageEnd(results, Len(results), loc.skip)
         ELSE loc.skip

\* faulty variant: one future more than the pool width is submitted
SyncSlots_extra == 0..SyncParallelRequests

\* `for i in range(PARALLEL_REQUESTS)` (sync.py 194, 386)
SyncSlots == 0..(SyncParallelRequests - 1)

\* faulty variant: every slot fetches the page at the round's first skip
FetchSlot_sameskip(up, loc, i) ==
    IF up.entity = "gifts"
    THEN _fetch_gifts_page(up, loc.skip, loc.date_cursor)
    ELSE _fetch_contacts_page(up, loc.skip)

\* sync.py 195-203, 387-394: the page slot i fetches
FetchSlot(up, loc, i) ==
    LET page_skip == loc.skip + i * SyncPageSize
    IN  IF up.entity = "gifts"
        THEN _fetch_gifts_page(up, page_skip, loc.date_cursor)
        ELSE _fetch_contacts_page(up, page_skip)

\* faulty variant: the flush loop is left before any upsert
FlushDone_early(loc) == TRUE

\* `for item in batch_buffer: yield op.upsert(...)` is exhausted
FlushDone(loc) == loc.i >= Len(loc.batch_buffer)

\* faulty variant: every round with rows in the buffer flushes
ShouldFlush_nonempty(loc) == loc.batch_buffer # <<>>

\* faulty variant: the flush waits for the buffer to exceed the batch size
ShouldFlush_late(loc) == Len(loc.batch_buffer) > SyncBatchSize

\* sync.py 265, 496
ShouldFlush(loc) == Len(loc.batch_buffer) >= SyncBatchSize

\* faulty variant: the skip is kept when the date cursor moves
CursorAfterFlush_keepskip(loc) ==
    IF loc.last_gift_date # None
          /\ (loc.date_cursor = None
                \/ Val(loc.last_gift_date) > Val(loc.date_cursor))
    THEN [loc EXCEPT !.date_cursor = loc.last_gift_date]
    ELSE loc

\* faulty variant: the skip is reset whenever the last gift date has reached
\* the date cursor
CursorAfterFlush_geq(loc) ==
    IF loc.last_gift_date # None
          /\ (loc.date_cursor = None
                \/ Val(loc.last_gift_date) >= Val(loc.date_cursor))
    THEN [loc EXCEPT !.date_cursor = loc.last_gift_date, !.skip = 0]
    ELSE loc

\* sync.py 275-288: the date cursor after a flush
CursorAfterFlush(loc) ==
    IF loc.last_gift_date # None
          /\ (loc.date_cursor = None
                \/ Val(loc.last_gift_date) > Val(loc.date_cursor))
    THEN [loc EXCEPT !.date_cursor = loc.last_gift_date, !.skip = 0]
    ELSE loc

\* faulty variant: the checkpoint is given a new dict with the cursor fields
CheckpointState_fresh(up, state, loc) ==
    IF up.entity = "gifts"
    THEN [gifts_date_cursor |-> loc.date_cursor, gifts_day_skip |-> loc.skip,
          gifts_total_synced |-> loc.total]
    ELSE [contacts_skip |-> loc.skip, contacts_total_synced |-> loc.total]

\* sync.py 290-293, 508-510: the state written with a checkpoint
CheckpointState(up, state, loc) ==
    IF up.entity = "gifts"
    THEN Put(Put(Put(state, "gifts_date_cursor", loc.date_cursor),
                 "gifts_day_skip", loc.skip),
             "gifts_total_synced", loc.total)
    ELSE Put(Put(state, "contacts_skip", loc.skip),
             "contacts_total_synced", loc.total)

\* faulty variant: the synced total is left in the state
FinalState_keeptotal(up, state) ==
    IF up.entity = "gifts"
    THEN Pop(Pop(Put(state, "gifts_complete", TRUE), "gifts_date_cursor"),
             "gifts_day_skip")
    ELSE Pop(Put(state, "contacts_complete", TRUE), "contacts_skip")

\* sync.py 304-308, 525-528: the state returned
FinalState(up, state) ==
    IF up.entity = "gifts"
    THEN Pop(Pop(Pop(Put(state, "gifts_complete", TRUE), "gifts_date_cursor"),
                 "gifts_day_skip"), "gifts_total_synced")
    ELSE Pop(Pop(Put(state, "contacts_complete", TRUE), "contacts_skip"),
             "contacts_total_synced")

\* the date lists of n gifts as query_gifts sorts them: undated gifts first,
\* then ascending dates; the dates used are 1, 2, .. without gaps (only the
\* order of two dates matters to the code)
SortedDates(n) ==
    {d \in [1..n -> 0..MaxDate] :
        /\ n > 0 => d[1] <= 1
        /\ \A a \in 1..(n - 1) : d[a] <= d[a + 1] /\ d[a + 1] <= d[a] + 1}

\* the sizes of the model
ScaledSizes == [page_size |-> SYNC_PAGE_SIZE,
                parallel_requests |-> SYNC_PARALLEL_REQUESTS,
                batch_size |-> SYNC_BATCH_SIZE]

SyncUpstreams ==
    {[entity |-> "gifts", dates |-> d, n |-> Len(d), shape |-> "plain",
      cfg |-> ScaledSizes] :
        d \in UNION {SortedDates(n) : n \in 0..MaxRecords}}
    \cup {[entity |-> "contacts", dates |-> <<>>, n |-> n, shape |-> sh,
           cfg |-> ScaledSizes] :
        n \in 0..MaxRecords, sh \in {"plain", "addr", "family"}}

\* The state dict a first run is given: empty, or holding what the connector
\* and the sync of the other entity have written (connector.py 228, 242;
\* sync.py 290-293, 508-510) and a completion flag of this entity left unset.
InitialStates(entity) ==
    {EmptyDict,
     IF entity = "gifts"
     THEN [last_sync_time |-> 1, contacts_skip |-> 3, contacts_total_synced |-> 3,
           gifts_complete |-> FALSE]
     ELSE [last_sync_time |-> 1, gifts_complete |-> TRUE,
           contacts_complete |-> FALSE]}

SyncInit ==
    /\ syUp \in SyncUpstreams
    /\ syState \in InitialStates(syUp.entity)
    /\ syCkpt = syState
    /\ syPc = "start"
    /\ syLoc = NoLocals
    /\ syOps = <<>>
    /\ syEmitted = {}
    /\ syRun = [NoRun EXCEPT !.start = syState]
    /\ IdleCursor /\ IdleAdaptive /\ IdleParallel
    /\ IdleRest

otherVars == <<cursorVars, adaptiveVars, parallelVars, restVars>>

\* faulty variant: a state that already holds a date cursor is migrated too
HasOldState_anycursor(state) == Get(state, "gifts_skip", 0) > 0

\* sync.py 66-67
HasOldState(state) ==
    Get(state, "gifts_skip", 0) > 0 /\ "gifts_date_cursor" \notin DOMAIN state

\* sync.py 106-112: the new fields are written and gifts_skip removed
MigratedState(state, gift_date) ==
    Pop(Put(Put(state, "gifts_date_cursor", gift_date), "gifts_day_skip", 0),
        "gifts_skip")

\* _migrate_skip_to_date_cursor (sync.py 46-113): the gift at the old skip is
\* fetched with take=1 and no date filter; RuntimeError is raised when there
\* is none or when it has no gift date, before the state is written
_migrate_skip_to_date_cursor(up, state) ==
    IF ~HasOldState(state) THEN [raised |-> FALSE, state |-> state]
    ELSE LET old_skip == state["gifts_skip"]
             view == GiftView(up, None)
             gifts == SubSeq(view, old_skip + 1, Min2(old_skip + 1, Len(view)))
         IN  IF gifts = <<>> THEN [raised |-> TRUE, state |-> state]
             ELSE IF _extract_gift_date(up, gifts[1]) = None
             THEN [raised |-> TRUE, state |-> state]
             ELSE [raised |-> FALSE,
                   state |-> MigratedState(state, _extract_gift_date(up, gifts[1]))]

\* sync.py 168-187, 364-379: sync_gifts migrates an old skip-based state, and
\* leaves with RuntimeError when that fails; the locals are read from the
\* state
SyncStart ==
    /\ syPc = "start"
    /\ IF syUp.entity = "gifts"
       THEN \E m \in {_migrate_skip_to_date_cursor(syUp, syState)} :
                /\ syState' = m.state
                /\ syPc' = IF m.raised THEN "failed" ELSE "loop"
                /\ syLoc' = IF m.raised THEN NoLocals
                            ELSE [NoLocals EXCEPT
                                    !.date_cursor = Get(m.state, "gifts_date_cursor", None),
                                    !.skip = Get(m.state, "gifts_day_skip", 0),
                                    !.total = Get(m.state, "gifts_total_synced", 0)]
       ELSE /\ syLoc' = [NoLocals EXCEPT
                            !.skip = Get(syState, "contacts_skip", 0),
                            !.total = Get(syState, "contacts_total_synced", 0)]
            /\ syPc' = "loop"
            /\ UNCHANGED syState
    /\ UNCHANGED <<syUp, syCkpt, syOps, syEmitted, syRun, otherVars>>

\* sync.py 192-205, 384-394: the pool is created and one future per slot
\* submitted
SyncSubmit ==
    /\ syPc = "loop" /\ ~syLoc.reached_end
    /\ syLoc' = [syLoc EXCEPT !.futures = SyncSlots, !.results = <<>>]
    /\ syPc' = "waiting"
    /\ syRun' = [syRun EXCEPT !.rounds = @ + 1,
                              !.roundOps = Len(syOps), !.roundState = syState,
                              !.roundPos = <<syLoc.date_cursor, syLoc.skip>>,
                              !.raised = FALSE]
    /\ UNCHANGED <<syUp, syState, syCkpt, syOps, syEmitted, otherVars>>

\* faulty variant: the results are processed as soon as one has arrived
AllJoined_first(loc) == loc.results # <<>>

\* `for future in as_completed(futures)` is exhausted and the pool is closed
AllJoined(loc) == loc.futures = {}

\* sync.py 208-212, 397-401: as_completed yields the future of slot i and its
\* page is appended to results
SyncComplete(i) ==
    /\ syPc = "waiting" /\ ~AllJoined(syLoc)
    /\ i \in syLoc.futures
    /\ syLoc' = [syLoc EXCEPT !.futures = @ \ {i},
                              !.results = Append(@, FetchSlot(syUp, syLoc, i))]
    /\ UNCHANGED <<syUp, syState, syCkpt, syPc, syOps, syEmitted, syRun, otherVars>>

\* faulty variant: the error is logged and the page taken as empty
OnFetchError_swallow(loc, i) ==
    [pc |-> "waiting",
     loc |-> [loc EXCEPT !.futures = @ \ {i},
                         !.results = Append(@, <<loc.skip + i * SyncPageSize, <<>>>>)]]

\* sync.py 213-215, 402-404: `except Exception: log.severe(...); raise`; the
\* pool is closed (the other futures are waited for) and the exception leaves
\* the generator
OnFetchError(loc, i) ==
    [pc |-> "failed", loc |-> [loc EXCEPT !.futures = {}]]

\* the page fetch of slot i raised (query_gifts / query_contacts after the
\* retries of request_with_retry, or any other exception)
SyncRoundFails ==
    /\ syPc = "waiting" /\ ~AllJoined(syLoc)
    /\ \E i \in syLoc.futures :
         LET out == OnFetchError(syLoc, i)
         IN  /\ syPc' = out.pc
             /\ syLoc' = out.loc
    /\ syRun' = [syRun EXCEPT !.raised = TRUE]
    /\ UNCHANGED <<syUp, syState, syCkpt, syOps, syEmitted, otherVars>>

RECURSIVE FullPagesProcessed(_, _)
\* the full pages among those the loop over the results processes before it
\* breaks at an empty or partial page
FullPagesProcessed(results, k) ==
    IF k > Len(results) \/ Len(results[k][2]) < SyncPageSize THEN 0
    ELSE 1 + FullPagesProcessed(results, k + 1)

\* The rest of a round (sync.py 217-265, 406-496): the results are sorted by
\* skip and processed; the position moves; the flush starts when the buffer
\* has reached the batch size.
SyncRound ==
    /\ syPc = "waiting" /\ AllJoined(syLoc)
    /\ \E results \in {SortBySkip(syLoc.results)} :
         \E loc2 \in {ProcessResults(syUp, results, 1, syLoc)} :
            syLoc' = [loc2 EXCEPT !.skip = SkipAfterRound(syUp, results, loc2),
                                  !.i = 0, !.results = <<>>]
    /\ syPc' = IF ShouldFlush(syLoc') THEN "flush" ELSE "loop"
    /\ syRun' = [syRun EXCEPT
                    !.fullPages = @ + FullPagesProcessed(SortBySkip(syLoc.results), 1),
                    !.buffered = @ \cup Range(syLoc'.batch_buffer),
                    !.appended = @ \o SubSeq(syLoc'.batch_buffer,
                                            Len(syLoc.batch_buffer) + 1,
                                            Len(syLoc'.batch_buffer))]
    /\ UNCHANGED <<syUp, syState, syCkpt, syOps, syEmitted, otherVars>>

\* sync.py 269-270, 502-503: the next buffered row is yielded as an upsert
YieldUpsert ==
    /\ syPc = "flush" /\ ~FlushDone(syLoc)
    /\ LET item == syLoc.batch_buffer[syLoc.i + 1]
       IN  /\ syOps' = Append(syOps, <<"upsert", item>>)
           /\ syEmitted' = syEmitted \cup {item}
    /\ syLoc' = [syLoc EXCEPT !.i = @ + 1]
    /\ UNCHANGED <<syUp, syState, syCkpt, syPc, syRun, otherVars>>

\* sync.py 272-294, 505-511: the buffer is cleared, the position written to
\* the state and the checkpoint yielded
YieldCheckpoint ==
    /\ syPc = "flush" /\ FlushDone(syLoc)
    /\ LET loc2 == IF syUp.entity = "gifts"
                   THEN CursorAfterFlush([syLoc EXCEPT !.batch_buffer = <<>>])
                   ELSE [syLoc EXCEPT !.batch_buffer = <<>>]
           state2 == CheckpointState(syUp, syState, loc2)
       IN  /\ syLoc' = [loc2 EXCEPT !.i = 0]
           /\ syState' = state2
           /\ syCkpt' = state2
           /\ syOps' = Append(syOps, <<"checkpoint", state2>>)
    /\ syPc' = "checkpoint"
    /\ UNCHANGED <<syUp, syEmitted, syRun, otherVars>>

\* the generator is resumed after the checkpoint and is back at the loop head
ResumeAfterCheckpoint ==
    /\ syPc = "checkpoint"
    /\ syPc' = "loop"
    /\ UNCHANGED <<syUp, syState, syCkpt, syLoc, syOps, syEmitted, syRun, otherVars>>

\* faulty variant: the remaining rows are yielded only when they fill a batch
HasRemaining_full(loc) == Len(loc.batch_buffer) >= SyncBatchSize

\* sync.py 297, 514: `if batch_buffer:`
HasRemaining(loc) == loc.batch_buffer # <<>>

\* sync.py 296-310, 513-530 with an empty buffer, or 296-297 with rows left
LoopExit ==
    /\ syPc = "loop" /\ syLoc.reached_end
    /\ IF ~HasRemaining(syLoc)
       THEN /\ syState' = FinalState(syUp, syState)
            /\ syPc' = "done"
            /\ UNCHANGED syLoc
       ELSE /\ syPc' = "final"
            /\ syLoc' = [syLoc EXCEPT !.i = 0]
            /\ UNCHANGED syState
    /\ UNCHANGED <<syUp, syCkpt, syOps, syEmitted, syRun, otherVars>>

\* sync.py 299-300, 516-517: a remaining row is yielded as an upsert
YieldFinalUpsert ==
    /\ syPc = "final" /\ syLoc.i < Len(syLoc.batch_buffer)
    /\ LET item == syLoc.batch_buffer[syLoc.i + 1]
       IN  /\ syOps' = Append(syOps, <<"upsert", item>>)
           /\ syEmitted' = syEmitted \cup {item}
    /\ syLoc' = [syLoc EXCEPT !.i = @ + 1]
    /\ UNCHANGED <<syUp, syState, syCkpt, syPc, syRun, otherVars>>

\* sync.py 302-310, 519-530: the entity is marked complete, the state returned
SyncFinish ==
    /\ syPc = "final" /\ syLoc.i >= Len(syLoc.batch_buffer)
    /\ syState' = FinalState(syUp, syState)
    /\ syPc' = "done"
    /\ UNCHANGED <<syUp, syCkpt, syLoc, syOps, syEmitted, syRun, otherVars>>

\* The process dies (or the failed call is given up) and the sync is run again
\* from the state of the last checkpoint; the destination keeps its rows.
CrashAndRerun ==
    /\ syPc \in {"loop", "waiting", "flush", "checkpoint", "final", "failed"}
    /\ syRun.crashes < MaxCrashes
    /\ syRun' = [NoRun EXCEPT
                    !.start = syCkpt,
                    !.crashes = syRun.crashes + 1,
                    !.crashedAfterUpserts =
                        \/ syRun.crashedAfterUpserts
                        \/ syPc = "flush" /\ syLoc.i = Len(syLoc.batch_buffer)]
    /\ syState' = syCkpt
    /\ syPc' = "start"
    /\ syLoc' = NoLocals
    /\ syOps' = <<>>
    /\ UNCHANGED <<syUp, syCkpt, syEmitted, otherVars>>

SyncNext ==
    \/ SyncStart
    \/ SyncSubmit
    \/ \E i \in SyncSlots : SyncComplete(i)
    \/ SyncRoundFails
    \/ SyncRound
    \/ YieldUpsert
    \/ YieldCheckpoint
    \/ ResumeAfterCheckpoint
    \/ LoopExit
    \/ YieldFinalUpsert
    \/ SyncFinish
    \/ CrashAndRerun

SpecSync == SyncInit /\ [][SyncNext]_vars

Upserted(ops) == {ops[k][2] : k \in {x \in 1..Len(ops) : ops[x][1] = "upsert"}}

AllRows(up) == UNION {Range(RowsOf(up, j)) : j \in 1..up.n}

\* the records a run resumed from the checkpointed state ckpt does not fetch
NotFetchedAgain(up, ckpt) ==
    IF up.entity = "gifts"
    THEN LET view == GiftView(up, Get(ckpt, "gifts_date_cursor", None))
             k == Get(ckpt, "gifts_day_skip", 0)
         IN  ((1..up.n) \ Range(view))
                 \cup {view[x] : x \in 1..Min2(k, Len(view))}
    ELSE 1..Min2(Get(ckpt, "contacts_skip", 0), up.n)

\* C2: At-least-once emission. When a checkpoint operation has just been
\* yielded, every row this run has put into the buffer has been yielded as an
\* upsert, and every row of a record that a run resumed from the checkpointed
\* position would not fetch again is in the destination.
C2_EmitBeforeCheckpoint ==
    syPc = "checkpoint" =>
        /\ syRun.buffered \subseteq Upserted(syOps)
        /\ \A j \in NotFetchedAgain(syUp, syCkpt) :
               Range(RowsOf(syUp, j)) \subseteq syEmitted

\* C2 witness: a gifts checkpoint inside a date (day_skip > 0) has been yielded.
C2_Witness ==
    /\ syPc = "checkpoint" /\ syUp.entity = "gifts"
    /\ syCkpt["gifts_day_skip"] > 0
    /\ syCkpt["gifts_date_cursor"] # None
    /\ NotFetchedAgain(syUp, syCkpt) # {}
    /\ NotFetchedAgain(syUp, syCkpt) # 1..syUp.n

\* C3: Idempotent resume. For an unchanging contact list, when sync_contacts
\* has completed, after any crashes and re-runs from the last checkpointed
\* state, the destination holds exactly the rows of every contact: the rows an
\* uninterrupted run upserts, none skipped.
C3_IdempotentResume ==
    (syUp.entity = "contacts" /\ syPc = "done") =>
        /\ syEmitted = AllRows(syUp)
        /\ (syRun.crashes = 0 => Upserted(syOps) = AllRows(syUp))

\* C3 witness: a run crashed after the upserts of a flush and before its
\* checkpoint; the re-run has completed.
C3_Witness ==
    /\ syUp.entity = "contacts" /\ syPc = "done"
    /\ syUp.n > SyncParallelRequests * SyncPageSize
    /\ syRun.crashedAfterUpserts
    /\ "contacts_skip" \in DOMAIN syCkpt

(***************************************************************************)
(* Saving and loading an IDCursor (fetch.py 51-63).  The state dict is     *)
(* syState; a cursor is loaded from it with from_state, advanced, and      *)
(* saved by merging to_state() into it.                                    *)
(***************************************************************************)
IdCursorKey(entity_type) == entity_type \o "_id_cursor"
TotalSyncedKey(entity_type) == entity_type \o "_total_synced"

\* IDCursor.to_state (fetch.py 51-55); last_id is stored as it is, None included
to_state(entity_type, c) ==
    [k \in {IdCursorKey(entity_type), TotalSyncedKey(entity_type)} |->
        IF k = IdCursorKey(entity_type) THEN c.last_id ELSE c.total_synced]

\* faulty variant: a missing id cursor is read as id 0
from_state_zero(state, entity_type) ==
    [last_id |-> Get(state, IdCursorKey(entity_type), Some(0)),
     total_synced |-> Get(state, TotalSyncedKey(entity_type), 0)]

\* IDCursor.from_state (fetch.py 57-63): state.get with defaults None and 0
from_state(state, entity_type) ==
    [last_id |-> Get(state, IdCursorKey(entity_type), None),
     total_synced |-> Get(state, TotalSyncedKey(entity_type), 0)]

\* merging a dict into the state map: the keys of d are written, the others
\* kept
Merge(state, d) ==
    [k \in DOMAIN state \cup DOMAIN d |-> IF k \in DOMAIN d THEN d[k] ELSE state[k]]

OtherEntity(entity_type) == IF entity_type = "gifts" THEN "contacts" ELSE "gifts"

\* the state maps a cursor is loaded from: each of its two keys absent or
\* present (the id None or a number), alone or beside the keys of the other
\* entity and of the connector
CursorStates(entity_type) ==
    LET own == {Merge(a, b) :
                    a \in {EmptyDict} \cup
                          {[k \in {IdCursorKey(entity_type)} |-> l] :
                              l \in {None} \cup {Some(i) : i \in 0..MaxId}},
                    b \in {EmptyDict} \cup
                          {[k \in {TotalSyncedKey(entity_type)} |-> t] : t \in 0..1}}
        others == {EmptyDict,
                   Merge(to_state(OtherEntity(entity_type),
                                  [last_id |-> Some(MaxId), total_synced |-> 5]),
                         [last_sync_time |-> 1])}
    IN  {Merge(o, w) : o \in others, w \in own}

CursorStateInit ==
    /\ \E e \in {"gifts", "contacts"} :
           /\ cHist = [NoHist EXCEPT !.entity_type = e, !.phase = "new"]
           /\ syState \in CursorStates(e)
    /\ cursor = NewCursor
    /\ syUp = [entity |-> "none", dates |-> <<>>, n |-> 0, shape |-> "plain",
               cfg |-> [page_size |-> 0, parallel_requests |-> 0, batch_size |-> 0]]
    /\ syCkpt = EmptyDict
    /\ syPc = "idle"
    /\ syLoc = NoLocals
    /\ syOps = <<>>
    /\ syEmitted = {}
    /\ syRun = NoRun
    /\ IdleAdaptive /\ IdleParallel
    /\ IdleRest

\* IDCursor.from_state(state, entity_type)
Load ==
    /\ cHist.phase \in {"new", "saved"}
    /\ cursor' = from_state(syState, cHist.entity_type)
    /\ cHist' = [cHist EXCEPT !.init = cursor', !.prev = cursor', !.ids = {},
                              !.counts = 0,
                              !.phase = IF cHist.phase = "new" THEN "loaded"
                                        ELSE "reloaded"]
    /\ UNCHANGED <<adaptiveVars, parallelVars, syncVars, restVars>>

\* cursor.advance(new_max_id, count) on a constructed cursor
AdvanceLoaded ==
    /\ cHist.entity_type # "none"
    /\ cHist.phase \in {"loaded", "reloaded"}
    /\ Advance

\* the cursor is saved: to_state() is merged into the state map
Save ==
    /\ cHist.entity_type # "none"
    /\ cHist.phase \in {"loaded", "reloaded"}
    /\ syState' = Merge(syState, to_state(cHist.entity_type, cursor))
    /\ cHist' = [cHist EXCEPT !.phase = "saved", !.saved = cursor]
    /\ UNCHANGED <<cursor, adaptiveVars, parallelVars, restVars,
                   syUp, syCkpt, syPc, syLoc, syOps, syEmitted, syRun>>

CursorStateNext == Load \/ AdvanceLoaded \/ Save

SpecCursorState == CursorStateInit /\ [][CursorStateNext]_vars

(***************************************************************************)
(* SpecRounds: the rounds of sync_gifts, sync_contacts and                 *)
(* fetch_batch_parallel, the latter on the endpoints with a poisoned       *)
(* record.                                                                 *)
(***************************************************************************)
RoundsInit ==
    \/ SyncInit
    \/ ParallelInit /\ pbIn.ep.fail = "poison"

RoundsNext == SyncNext \/ ParallelNext

SpecRounds == RoundsInit /\ [][RoundsNext]_vars

\* the exceptions the slots of the fetch_batch_parallel call raise
SlotFaults == {SlotFetch(pbIn, i).raised : i \in Slots} \ {""}

\* C12: Fatal-error cancellation. When a page fetch of a round of sync_gifts or
\* sync_contacts has raised, the generator has failed, no operation has been
\* yielded since the round was submitted, and the state dict is the one the
\* round started with, which is the state of the last checkpoint. When a slot
\* of fetch_batch_parallel raises an error fetch_page_adaptive does not
\* absorb, the call raises that error and returns no records.
C12_FatalErrorCancellation ==
    /\ syRun.raised =>
           /\ syPc = "failed"
           /\ Len(syOps) = syRun.roundOps
           /\ syState = syRun.roundState
           /\ syState = syCkpt
    /\ pbPc \in {"returned", "raised"} =>
           IF SlotFaults = {}
           THEN pbPc = "returned" /\ pbOut.raised = ""
           ELSE /\ pbPc = "raised"
                /\ pbOut.raised \in SlotFaults
                /\ pbOut.all_records = <<>>

\* C12 witness: a contacts fetch of the round after the first checkpoint has
\* raised.
C12_Witness ==
    /\ syUp.entity = "contacts" /\ syRun.raised /\ syPc = "failed"
    /\ syRun.crashes = 0
    /\ "contacts_skip" \in DOMAIN syCkpt
    /\ syRun.roundOps > SyncBatchSize
    /\ syLoc.batch_buffer = <<>>

\* the buffer, the counters and the cursor of the generator
Mutable(loc) ==
    <<loc.batch_buffer, loc.total, loc.skip, loc.date_cursor,
      loc.last_gift_date, loc.reached_end>>

\* C13: Join before mutate. At most PARALLEL_REQUESTS fetches are in flight;
\* the buffer, the counters and the cursor change only in steps taken with no
\* fetch in flight, and the results of fetch_batch_parallel are computed only
\* when its last future has completed; the fetches of a round are issued only
\* from the loop head, with no result of the previous round left unprocessed
\* and at a position other than that of the previous round.
C13_JoinBeforeMutate ==
    /\ [](/\ Cardinality(syLoc.futures) <= SyncParallelRequests
          /\ Cardinality(pbPending) <= PARALLEL_REQUESTS)
    /\ [][(syRun'.crashes = syRun.crashes /\ Mutable(syLoc') # Mutable(syLoc))
              => (syLoc.futures = {} /\ syLoc'.futures = {})]_vars
    /\ [][pbOut' # pbOut => (pbPending' = {} \/ pbPc' = "raised")]_vars
    /\ [][(syLoc'.futures # {} /\ ~(syLoc'.futures \subseteq syLoc.futures))
              => /\ syPc = "loop"
                 /\ syLoc.futures = {}
                 /\ syLoc.results = <<>>
                 /\ <<syLoc.date_cursor, syLoc.skip>> # syRun.roundPos]_vars

\* C13 witness: the fetches of a second round are in flight, the rows of the
\* first round having been flushed.
C13_Witness ==
    /\ syPc = "waiting" /\ syLoc.futures = SyncSlots
    /\ syLoc.total >= SyncParallelRequests * SyncPageSize
    /\ syRun.roundPos # <<None, 0>>
    /\ syOps # <<>>

\* C14 as stated: the buffer never holds more than BATCH_SIZE rows.
C14_Original == Len(syLoc.batch_buffer) <= SyncBatchSize

\* the most rows one round appends: every page full
MaxRowsOfRound(up) ==
    SyncParallelRequests * SyncPageSize * Len(RowsOf(up, 1))

\* C14 amended: BATCH_SIZE is the flush threshold. The buffer holds fewer than
\* BATCH_SIZE rows whenever a round starts or is in flight and when the loop
\* has ended; between the end of a round and its checkpoint it holds at most
\* BATCH_SIZE - 1 rows plus the rows of that round (for gifts at most
\* PARALLEL_REQUESTS * PAGE_SIZE of them).
C14_BufferBelowThresholdBetweenRounds ==
    /\ syPc \in {"loop", "waiting", "final", "done", "failed"} =>
           Len(syLoc.batch_buffer) < SyncBatchSize
    /\ Len(syLoc.batch_buffer) <= SyncBatchSize - 1 + MaxRowsOfRound(syUp)

\* C14 witness: a contacts round has left more than BATCH_SIZE rows in the
\* buffer and the flush has not started.
C14_Witness ==
    /\ syPc = "flush" /\ syUp.entity = "contacts" /\ syLoc.i = 0
    /\ Len(syLoc.batch_buffer) > SyncBatchSize

\* the operations yielded since the round in progress was submitted
OpsOfRound == SubSeq(syOps, syRun.roundOps + 1, Len(syOps))

SameRun == syRun'.crashes = syRun.crashes

\* C15: Flush trigger. A round ends in a flush if and only if the buffer then
\* holds at least BATCH_SIZE rows, and the round itself yields nothing; a
\* flush yields the buffered rows as upserts, one each, in buffer order, then
\* one checkpoint, with which the buffer is empty; operations are yielded only
\* by a flush or by the final drain, so a round ending below BATCH_SIZE
\* yields neither an upsert nor a checkpoint.
C15_FlushTrigger ==
    /\ [][(syPc = "waiting" /\ syPc' \in {"loop", "flush"}) =>
              /\ syPc' = "flush" <=> Len(syLoc'.batch_buffer) >= SyncBatchSize
              /\ syOps' = syOps]_vars
    /\ [](syPc = "flush" =>
              /\ Len(syLoc.batch_buffer) >= SyncBatchSize
              /\ OpsOfRound = [k \in 1..syLoc.i |->
                                  <<"upsert", syLoc.batch_buffer[k]>>])
    /\ [][(syPc = "flush" /\ syPc' = "checkpoint") =>
              /\ syLoc.i = Len(syLoc.batch_buffer)
              /\ syOps' = Append(syOps, <<"checkpoint", syState'>>)
              /\ syLoc'.batch_buffer = <<>>]_vars
    /\ [][(SameRun /\ syOps' # syOps) => syPc \in {"flush", "final"}]_vars
    /\ [][(SameRun /\ syPc = "flush") => syPc' \in {"flush", "checkpoint"}]_vars

\* C15 witness: the checkpoint of a flush of more than BATCH_SIZE rows has just
\* been yielded.
C15_Witness ==
    /\ syPc = "checkpoint"
    /\ Len(OpsOfRound) > SyncBatchSize + 1
    /\ syLoc.batch_buffer = <<>>
    /\ OpsOfRound[Len(OpsOfRound)][1] = "checkpoint"

(***************************************************************************)
(* SpecScenario: uninterrupted syncs with page size 1000, 4 parallel       *)
(* requests and a batch size of 2000, each loop of yields taken as one     *)
(* step, of 2350 gifts (dated 1, 2, 3 by the thousand), of 2350 contacts   *)
(* without child rows and of 1350 gifts.                                   *)
(***************************************************************************)
ScenarioSizes == [page_size |-> 1000, parallel_requests |-> 4, batch_size |-> 2000]

ScenarioUpstreams ==
    {[entity |-> "gifts", dates |-> [j \in 1..n |-> 1 + (j \div 1000)], n |-> n,
      shape |-> "plain", cfg |-> ScenarioSizes] : n \in {2350, 1350}}
    \cup {[entity |-> "contacts", dates |-> <<>>, n |-> 2350, shape |-> "plain",
           cfg |-> ScenarioSizes]}

ScenarioInit ==
    /\ syUp \in ScenarioUpstreams
    /\ syState = EmptyDict
    /\ syCkpt = EmptyDict
    /\ syPc = "start"
    /\ syLoc = NoLocals
    /\ syOps = <<>>
    /\ syEmitted = {}
    /\ syRun = NoRun
    /\ IdleCursor /\ IdleAdaptive /\ IdleParallel
    /\ IdleRest

\* the upserts of the rows of buffer after the first i, in order
UpsertsFrom(buffer, i) ==
    [k \in 1..(Len(buffer) - i) |-> <<"upsert", buffer[i + k]>>]

\* sync.py 269-270, 502-503: the whole `for item in batch_buffer` loop of a
\* flush, consumed without interruption
FlushUpserts ==
    /\ syPc = "flush" /\ ~FlushDone(syLoc)
    /\ syOps' = syOps \o UpsertsFrom(syLoc.batch_buffer, syLoc.i)
    /\ syEmitted' = syEmitted \cup
                        {syLoc.batch_buffer[k] : k \in (syLoc.i + 1)..Len(syLoc.batch_buffer)}
    /\ syLoc' = [syLoc EXCEPT !.i = Len(syLoc.batch_buffer)]
    /\ UNCHANGED <<syUp, syState, syCkpt, syPc, syRun, otherVars>>

\* sync.py 299-300, 516-517: the whole loop over the remaining rows, consumed
\* without interruption
FinalUpserts ==
    /\ syPc = "final" /\ syLoc.i < Len(syLoc.batch_buffer)
    /\ syOps' = syOps \o UpsertsFrom(syLoc.batch_buffer, syLoc.i)
    /\ syEmitted' = syEmitted \cup
                        {syLoc.batch_buffer[k] : k \in (syLoc.i + 1)..Len(syLoc.batch_buffer)}
    /\ syLoc' = [syLoc EXCEPT !.i = Len(syLoc.batch_buffer)]
    /\ UNCHANGED <<syUp, syState, syCkpt, syPc, syRun, otherVars>>

ScenarioNext ==
    \/ SyncStart
    \/ SyncSubmit
    \/ \E i \in SyncSlots : SyncComplete(i)
    \/ SyncRound
    \/ FlushUpserts
    \/ YieldCheckpoint
    \/ ResumeAfterCheckpoint
    \/ LoopExit
    \/ FinalUpserts
    \/ SyncFinish

SpecScenario == ScenarioInit /\ [][ScenarioNext]_vars

\* the scenario's sync of 2350 records has ended normally
ScenarioDone == syPc = "done" /\ syUp.n = 2350 /\ syUp.cfg = ScenarioSizes

\* the page the third slot of the first round returns
ThirdSlotPage == FetchSlot(syUp, NoLocals, 2)[2]

IsUpsertOf(o, j) == o = <<"upsert", RowsOf(syUp, j)[1]>>

\* C16 as stated: one round, its third slot returns 350 rows and ends the
\* stream, 2350 rows are upserted, the first flush yields 2000 rows and its
\* checkpoint, the last 350 rows follow, and the total synced is 2350.
C16_Original ==
    ScenarioDone =>
        /\ syRun.rounds = 1
        /\ Len(ThirdSlotPage) = 350 /\ syLoc.reached_end
        /\ Cardinality(Upserted(syOps)) = 2350
        /\ \A k \in 1..2000 : IsUpsertOf(syOps[k], k)
        /\ syOps[2001][1] = "checkpoint"
        /\ \A k \in 2001..2350 : IsUpsertOf(syOps[k + 1], k)
        /\ syLoc.total = 2350

\* C16 amended: one round, its third slot returns 350 rows and ends the
\* stream; the buffer is flushed once, with all 2350 rows in order and then
\* one checkpoint recording a total of 2350; nothing is left for the final
\* drain; the total synced is 2350 and the entity is marked complete with its
\* cursor fields removed.
C16_OneFlushOfTheWholeRound ==
    ScenarioDone =>
        /\ syRun.rounds = 1
        /\ Len(ThirdSlotPage) = 350 /\ syLoc.reached_end
        /\ Cardinality(Upserted(syOps)) = 2350
        /\ Len(syOps) = 2351
        /\ \A k \in 1..2350 : IsUpsertOf(syOps[k], k)
        /\ syOps[2351][1] = "checkpoint"
        /\ syOps[2351][2][IF syUp.entity = "gifts" THEN "gifts_total_synced"
                          ELSE "contacts_total_synced"] = 2350
        /\ syLoc.batch_buffer = <<>>
        /\ syLoc.total = 2350
        /\ syState = FinalState(syUp, EmptyDict)

\* C16 witness: the sync of 2350 gifts has ended after 2351 operations.
C16_Witness ==
    /\ ScenarioDone /\ syUp.entity = "gifts"
    /\ Len(syOps) = 2351 /\ syRun.rounds = 1
    /\ syState = [gifts_complete |-> TRUE]

\* the rows of the upserts of ops, in order
UpsertRows(ops) ==
    LET IsUpsert(o) == o[1] = "upsert"
        ups == SelectSeq(ops, IsUpsert)
    IN  [k \in 1..Len(ups) |-> ups[k][2]]

\* C17: Final drain. When sync_gifts or sync_contacts has ended normally, the
\* upserts the run has yielded are exactly the rows it appended to the
\* buffer, each append yielded once, in order: the rows left in the buffer at
\* the end of the loop have been upserted whatever their number.
C17_FinalDrain ==
    syPc = "done" =>
        /\ UpsertRows(syOps) = syRun.appended
        /\ syLoc.i = Len(syLoc.batch_buffer)

\* C17 witness: a sync has ended normally after a flush and a final drain of
\* a single row.
C17_Witness ==
    /\ syPc = "done" /\ Len(syLoc.batch_buffer) = 1
    /\ syOps[Len(syOps)] = <<"upsert", syLoc.batch_buffer[1]>>
    /\ \E k \in 1..Len(syOps) : syOps[k][1] = "checkpoint"
    /\ syRun.crashes = 0

\* the cursor fields of an entity in the state dict
CursorFields(entity) ==
    IF entity = "gifts"
    THEN {"gifts_date_cursor", "gifts_day_skip", "gifts_total_synced"}
    ELSE {"contacts_skip", "contacts_total_synced"}

CompleteFlag(entity) ==
    IF entity = "gifts" THEN "gifts_complete" ELSE "contacts_complete"

\* C18: DONE. When sync_gifts (sync_contacts) has ended normally, the state it
\* returns has gifts_complete (contacts_complete) set to true and holds none of
\* the entity's cursor fields, whatever the state dict held when the run
\* started.
C18_DoneStateIsClean ==
    syPc = "done" =>
        /\ CompleteFlag(syUp.entity) \in DOMAIN syState
        /\ syState[CompleteFlag(syUp.entity)] = TRUE
        /\ DOMAIN syState \cap CursorFields(syUp.entity) = {}

\* C18 witness: a gifts sync started from a checkpointed state that held all
\* cursor fields and the completion flag unset has ended normally.
C18_Witness ==
    /\ syPc = "done" /\ syUp.entity = "gifts"
    /\ CursorFields("gifts") \cup {"gifts_complete"} \subseteq DOMAIN syRun.start
    /\ syRun.start["gifts_complete"] = FALSE
    /\ syRun.start["gifts_total_synced"] > 0

(***************************************************************************)
(* SpecSave: every way a cursor is written to the state map: the           *)
(* checkpoints of sync_gifts and sync_contacts, and IDCursor.to_state.     *)
(***************************************************************************)
SaveInit == SyncInit \/ CursorStateInit

SaveNext == SyncNext \/ CursorStateNext

SpecSave == SaveInit /\ [][SaveNext]_vars

\* the map new agrees with the map old outside the keys ks, and has no key
\* that is neither in old nor in ks
OnlyKeysChanged(old, new, ks) ==
    /\ \A k \in DOMAIN old \ ks : k \in DOMAIN new /\ new[k] = old[k]
    /\ DOMAIN new \subseteq DOMAIN old \cup ks

\* C19: Saving a cursor is a pure merge. Merging to_state() of a cursor into
\* the state map changes only the two keys of the cursor's entity; the state
\* written with a checkpoint of sync_gifts or sync_contacts is the state
\* yielded and differs from the state before only in the cursor fields of the
\* entity being synced: every other key keeps its value.
C19_SaveIsPureMerge ==
    /\ [][(cHist.entity_type # "none" /\ syState' # syState) =>
              OnlyKeysChanged(syState, syState',
                  {IdCursorKey(cHist.entity_type),
                   TotalSyncedKey(cHist.entity_type)})]_vars
    /\ [][syPc' = "checkpoint" =>
              /\ OnlyKeysChanged(syState, syState', CursorFields(syUp.entity))
              /\ CursorFields(syUp.entity) \subseteq DOMAIN syState'
              /\ syOps' = Append(syOps, <<"checkpoint", syState'>>)
              /\ syCkpt' = syState']_vars
    /\ [](syPc = "checkpoint" =>
              OnlyKeysChanged(syRun.start, syCkpt, CursorFields(syUp.entity)))

\* C19 witness: a gifts checkpoint has been written into a state that held the
\* contacts cursor and last_sync_time.
C19_Witness ==
    /\ syPc = "checkpoint" /\ syUp.entity = "gifts"
    /\ {"contacts_skip", "last_sync_time"} \subseteq DOMAIN syCkpt
    /\ syCkpt["contacts_skip"] = 3
    /\ syCkpt["gifts_total_synced"] > 0

\* C20: from_state tolerates missing keys and round-trips. A cursor
\* constructed by from_state has last_id None when the state has no
\* <entity>_id_cursor and total_synced 0 when it has no <entity>_total_synced,
\* and the stored values otherwise; a cursor constructed from a state a
\* cursor was saved to equals the saved cursor, whatever other keys the state
\* holds.
C20_FromStateRoundTrip ==
    /\ cHist.phase \in {"loaded", "reloaded"} /\ cHist.entity_type # "none" =>
           /\ cHist.init.last_id =
                  (IF IdCursorKey(cHist.entity_type) \in DOMAIN syState
                   THEN syState[IdCursorKey(cHist.entity_type)] ELSE None)
           /\ cHist.init.total_synced =
                  (IF TotalSyncedKey(cHist.entity_type) \in DOMAIN syState
                   THEN syState[TotalSyncedKey(cHist.entity_type)] ELSE 0)
    /\ cHist.phase = "reloaded" => cHist.init = cHist.saved

\* C20 witness: a contacts cursor loaded from a state holding none of its
\* keys, beside the keys of the other entity, has been saved and loaded again.
C20_Witness ==
    /\ cHist.phase = "reloaded" /\ cHist.entity_type = "contacts"
    /\ cursor = cHist.saved
    /\ cursor.last_id = None /\ cursor.total_synced = 0
    /\ "gifts_id_cursor" \in DOMAIN syState
    /\ syState["contacts_id_cursor"] = None

(***************************************************************************)
(* SpecClear: the state dicts of SpecCursorState, a cursor loaded from and *)
(* saved to them, and clear_from_state called on the dict at any time      *)
(* after the cursor exists, more than once.                                *)
(***************************************************************************)
\* faulty variant: only the id cursor is removed
clear_from_state_idonly(entity_type, state) == Pop(state, IdCursorKey(entity_type))

\* IDCursor.clear_from_state (fetch.py 70-72): two state.pop(key, None)
clear_from_state(entity_type, state) ==
    Pop(Pop(state, IdCursorKey(entity_type)), TotalSyncedKey(entity_type))

\* cursor.clear_from_state(state)
Clear ==
    /\ cHist.entity_type # "none"
    /\ cHist.phase \in {"loaded", "saved", "cleared"}
    /\ syState' = clear_from_state(cHist.entity_type, syState)
    /\ cHist' = [cHist EXCEPT !.phase = "cleared", !.before = syState,
                              !.clears = Min2(@ + 1, 2)]
    /\ UNCHANGED <<cursor, adaptiveVars, parallelVars, restVars,
                   syUp, syCkpt, syPc, syLoc, syOps, syEmitted, syRun>>

ClearNext == Load \/ Save \/ Clear

SpecClear == CursorStateInit /\ [][ClearNext]_vars

OwnKeys(entity_type) == {IdCursorKey(entity_type), TotalSyncedKey(entity_type)}

\* C21: clear_from_state removes exactly the keys <entity>_id_cursor and
\* <entity>_total_synced of its own entity and leaves every other key of the
\* state unchanged, also when one or both keys are absent (the call ends
\* normally); a second call leaves the state as the first left it.
C21_ClearRemovesOwnKeys ==
    cHist.phase = "cleared" =>
        /\ DOMAIN syState = DOMAIN cHist.before \ OwnKeys(cHist.entity_type)
        /\ \A k \in DOMAIN syState : syState[k] = cHist.before[k]
        /\ cHist.clears >= 2 => syState = cHist.before

\* C21 witness: a gifts cursor was saved beside the keys of the other entity,
\* and clear_from_state has been called twice.
C21_Witness ==
    /\ cHist.phase = "cleared" /\ cHist.entity_type = "gifts"
    /\ cHist.clears = 2
    /\ "contacts_id_cursor" \in DOMAIN syState
    /\ cHist.saved.last_id # None
    /\ syState = cHist.before

\* C21 witness of the absent keys: clear_from_state has been called once on a
\* state holding neither key of the entity.
C21_AbsentKeysCleared ==
    /\ cHist.phase = "cleared" /\ cHist.clears = 1
    /\ OwnKeys(cHist.entity_type) \cap DOMAIN cHist.before = {}

(***************************************************************************)
(* SpecRetry: one call of request_with_retry (api.py 147-271).  Each       *)
(* iteration of the for loop makes one rq.request, which returns a         *)
(* response with some status or raises a RequestException; the loop ends   *)
(* by a return or by an exception leaving the function.                    *)
(***************************************************************************)
MAX_RETRIES == 5

\* what one rq.request can do: a response with a status, or an exception
Statuses == {200, 404, 429, 500, 502, 503, 504}
ConnectionFailures == {"ConnectionError", "Timeout"}
Response(status) == <<"response", status>>
RequestException(cls) == <<cls, 0>>
Raises(cls) == <<"raises", RequestException(cls)>>
RequestOutcomes == {Response(s) : s \in Statuses} \cup {Raises(c) : c \in ConnectionFailures}

\* faulty variant: 404 is retried as well
_is_retryable_error_404(status_code) == status_code \in {404, 429, 500, 502, 503, 504}

\* api.py 105-115
_is_retryable_error(status_code) == status_code \in {429, 500, 502, 503, 504}

\* Response.raise_for_status raises HTTPError for 4xx and 5xx
IsErrorStatus(status_code) == status_code >= 400 /\ status_code < 600

HTTPError(status) == <<"HTTPError", status>>
IsHTTPError(e) == e[1] = "HTTPError"

\* the locals after `continue`: the next attempt follows a sleep
Continue(loc) == [loc EXCEPT !.attempt = @ + 1, !.slept = @ + 1]
Raise(loc, e) == [loc EXCEPT !.pc = "raised", !.exc = e]
Return(loc) == [loc EXCEPT !.pc = "returned"]

\* faulty variant: one more retry is allowed
HasRetriesLeft_more(loc) == loc.attempt < MAX_RETRIES + 1

\* api.py 199, 227, 252: `if attempt < MAX_RETRIES`
HasRetriesLeft(loc) == loc.attempt < MAX_RETRIES

\* api.py 221-266: `except RequestException as e`.  A retryable HTTPError is
\* retried while attempts remain (229 assigns limit, remaining, reset_ts); a
\* connection error is retried while attempts remain, and the warning of
\* that branch reads the local `remaining` (258-260), which raises
\* UnboundLocalError when no response of this call has assigned it yet;
\* everything else is re-raised.
OnRequestException(loc, e) ==
    IF IsHTTPError(e) /\ _is_retryable_error(e[2]) /\ HasRetriesLeft(loc)
    THEN Continue([loc EXCEPT !.bound = TRUE])
    ELSE IF ~IsHTTPError(e) /\ HasRetriesLeft(loc)
    THEN IF loc.bound THEN Continue(loc)
         ELSE Raise(loc, <<"UnboundLocalError", 0>>)
    ELSE Raise(loc, e)

\* api.py 186-219: a retryable status assigns limit, remaining, reset_ts and
\* is retried while attempts remain, else raise_for_status raises inside the
\* try; any other status goes through raise_for_status and is returned when
\* it is no error
OnResponse(loc, status) ==
    IF _is_retryable_error(status)
    THEN LET loc2 == [loc EXCEPT !.bound = TRUE]
         IN  IF HasRetriesLeft(loc2) THEN Continue(loc2)
             ELSE OnRequestException(loc2, HTTPError(status))
    ELSE IF IsErrorStatus(status) THEN OnRequestException(loc, HTTPError(status))
    ELSE Return(loc)

RetryInit ==
    /\ retry = [NoRetry EXCEPT !.pc = "loop"]
    /\ fu = NoFu /\ IdleLater
    /\ IdleCursor /\ IdleAdaptive /\ IdleParallel /\ IdleSync

\* one iteration of `for attempt in range(MAX_RETRIES + 1)`
Attempt ==
    /\ retry.pc = "loop" /\ retry.attempt < MAX_RETRIES + 1
    /\ \E o \in RequestOutcomes :
           LET loc == [retry EXCEPT !.hist = Append(@, o)]
           IN  retry' = IF o[1] = "response" THEN OnResponse(loc, o[2])
                        ELSE OnRequestException(loc, o[2])
    /\ UNCHANGED <<cursorVars, adaptiveVars, parallelVars, syncVars, fu, laterVars>>

\* (api.py 268-271, after the loop, is never reached: the last iteration
\* returns or raises.)
RetryNext == Attempt

\* every rq.request ends (timeout=600) and every sleep ends
SpecRetry == RetryInit /\ [][RetryNext]_vars /\ WF_vars(RetryNext)

LastOutcome == retry.hist[Len(retry.hist)]
RetryEnded == retry.pc \in {"returned", "raised"}

\* C22: request_with_retry makes at most MAX_RETRIES + 1 HTTP attempts and
\* always ends by returning a response or raising. After an attempt that
\* received a response: status 429, 500, 502, 503 or 504 leads to another
\* attempt while fewer than MAX_RETRIES retries were made and to HTTPError
\* after that; any other error status raises HTTPError on that attempt; a
\* successful response is returned on that attempt.
C22_BoundedRetries ==
    /\ [](/\ Len(retry.hist) <= MAX_RETRIES + 1
          /\ retry.pc \in {"loop", "returned", "raised"}
          /\ retry.pc = "loop" => retry.attempt = Len(retry.hist) /\ retry.attempt <= MAX_RETRIES
          /\ retry.hist # <<>> /\ LastOutcome[1] = "response" =>
                 LET status == LastOutcome[2]
                 IN  IF status \in {429, 500, 502, 503, 504}
                     THEN IF Len(retry.hist) <= MAX_RETRIES
                          THEN retry.pc = "loop"
                          ELSE retry.pc = "raised" /\ retry.exc = HTTPError(status)
                     ELSE IF status >= 400
                     THEN retry.pc = "raised" /\ retry.exc = HTTPError(status)
                     ELSE retry.pc = "returned")
    /\ <>RetryEnded

\* C22 witness: five retryable responses were retried and the sixth attempt
\* raised HTTPError.
C22_Witness ==
    /\ Len(retry.hist) = MAX_RETRIES + 1
    /\ \A k \in 1..Len(retry.hist) : retry.hist[k][1] = "response"
    /\ retry.hist[1] = Response(429)
    /\ retry.pc = "raised" /\ retry.exc = HTTPError(503)

IsConnectionFailure(o) == o[1] = "raises"

\* C23 as stated: a connection error or timeout on an attempt before the last
\* is retried, also on the first attempt of the call; on the last attempt it
\* is raised to the caller.
C23_Original ==
    retry.hist # <<>> /\ IsConnectionFailure(LastOutcome) =>
        IF Len(retry.hist) <= MAX_RETRIES
        THEN retry.pc = "loop" /\ retry.attempt = Len(retry.hist)
        ELSE retry.pc = "raised" /\ retry.exc = LastOutcome[2]

\* what the code does: the connection error is retried only when an earlier
\* attempt of the call received a retryable response
C23_RetriedOnlyAfterRetryableResponse ==
    retry.hist # <<>> /\ IsConnectionFailure(LastOutcome) =>
        IF Len(retry.hist) > MAX_RETRIES
        THEN retry.pc = "raised" /\ retry.exc = LastOutcome[2]
        ELSE IF \E k \in 1..Len(retry.hist) : retry.hist[k][1] = "response"
        THEN retry.pc = "loop" /\ retry.attempt = Len(retry.hist)
        ELSE retry.pc = "raised" /\ retry.exc = <<"UnboundLocalError", 0>>

\* the gifts a run resumed from (gifts_date_cursor = D, gifts_day_skip = k)
\* does not fetch: those dated before D (or undated, when D is a date), and
\* the first k of the others in list order
(***************************************************************************)
(* SpecGifts: sync_gifts as in SpecSync, with pages of one gift so that a  *)
(* run goes through several rounds and checkpoints within and across gift  *)
(* dates.                                                                  *)
(***************************************************************************)
SMALL_PAGE_SIZE == 1
SMALL_PARALLEL_REQUESTS == 2
SMALL_BATCH_SIZE == 2
MaxGifts == 6

SmallSizes == [page_size |-> SMALL_PAGE_SIZE,
               parallel_requests |-> SMALL_PARALLEL_REQUESTS,
               batch_size |-> SMALL_BATCH_SIZE]

GiftUpstreams ==
    {[entity |-> "gifts", dates |-> d, n |-> Len(d), shape |-> "plain",
      cfg |-> SmallSizes] :
        d \in UNION {SortedDates(n) : n \in 0..MaxGifts}}

GiftsInit ==
    /\ syUp \in GiftUpstreams
    /\ syState \in InitialStates("gifts")
    /\ syCkpt = syState
    /\ syPc = "start"
    /\ syLoc = NoLocals
    /\ syOps = <<>>
    /\ syEmitted = {}
    /\ syRun = [NoRun EXCEPT !.start = syState]
    /\ IdleCursor /\ IdleAdaptive /\ IdleParallel
    /\ IdleRest

SpecGifts == GiftsInit /\ [][SyncNext]_vars

SkippedFrom(up, D, k) ==
    {j \in 1..up.n :
        IF D = None THEN j <= k
        ELSE \/ up.dates[j] < Val(D)
             \/ Cardinality({x \in 1..j : up.dates[x] >= Val(D)}) <= k}

\* C24: Resume safety of the gift date cursor. For an unchanging list sorted
\* by gift date, when sync_gifts has just yielded a checkpoint with
\* gifts_date_cursor = D and gifts_day_skip = k, every gift dated before D and
\* each of the first k gifts dated D or later is in the destination.
C24_ResumeSafety ==
    (syUp.entity = "gifts" /\ syPc = "checkpoint") =>
        LET ckpt == syOps[Len(syOps)][2]
        IN  \A j \in SkippedFrom(syUp, ckpt["gifts_date_cursor"], ckpt["gifts_day_skip"]) :
                <<"gifts", j>> \in syEmitted

\* C24 witness: a run resumed from a checkpoint has yielded a checkpoint
\* inside the last of two dates, past some of its gifts and before others.
C24_Witness ==
    /\ syUp.entity = "gifts" /\ syPc = "checkpoint"
    /\ syRun.crashes > 0
    /\ syCkpt["gifts_date_cursor"] = Some(2)
    /\ syCkpt["gifts_day_skip"] > 0
    /\ \E j \in 1..syUp.n : syUp.dates[j] = 1
    /\ SkippedFrom(syUp, Some(2), syCkpt["gifts_day_skip"]) # 1..syUp.n

IsCheckpoint(o) == o[1] = "checkpoint"

\* the checkpoints of the running call, in order
Checkpoints(ops) == SelectSeq(ops, IsCheckpoint)

DateLeq(a, b) == a = None \/ (b # None /\ Val(a) <= Val(b))

IsGiftsRunStep == syUp.entity = "gifts" /\ syPc # "start" /\ syPc' # "start"

\* C25: in sync_gifts the date cursor of successive checkpoints of one run
\* never decreases; gifts_day_skip is 0 in the checkpoint that sets or
\* advances the date cursor; with the date cursor unchanged it grows by
\* PARALLEL_REQUESTS * PAGE_SIZE in each round that did not reach the end and
\* is unchanged otherwise.
C25_DateCursorMonotone ==
    /\ [](syUp.entity = "gifts" =>
            LET cs == Checkpoints(syOps)
            IN  \A x \in 1..(Len(cs) - 1) :
                    LET a == cs[x][2]
                        b == cs[x + 1][2]
                    IN  /\ DateLeq(a["gifts_date_cursor"], b["gifts_date_cursor"])
                        /\ IF a["gifts_date_cursor"] # b["gifts_date_cursor"]
                           THEN b["gifts_day_skip"] = 0
                           ELSE /\ b["gifts_day_skip"] >= a["gifts_day_skip"]
                                /\ (b["gifts_day_skip"] - a["gifts_day_skip"])
                                       % (SyncParallelRequests * SyncPageSize) = 0)
    /\ [][IsGiftsRunStep =>
            /\ DateLeq(syLoc.date_cursor, syLoc'.date_cursor)
            /\ syLoc'.date_cursor # syLoc.date_cursor =>
                   /\ syPc' = "checkpoint" /\ syLoc'.skip = 0
                   /\ syCkpt'["gifts_date_cursor"] = syLoc'.date_cursor
                   /\ syCkpt'["gifts_day_skip"] = 0
            /\ syLoc'.date_cursor = syLoc.date_cursor =>
                   syLoc'.skip =
                       IF syPc = "waiting" /\ syPc' # "failed" /\ AllJoined(syLoc)
                             /\ ~syLoc'.reached_end
                       THEN syLoc.skip + SyncParallelRequests * SyncPageSize
                       ELSE syLoc.skip
            /\ syPc' = "checkpoint" /\ syPc = "flush" =>
                   /\ syCkpt'["gifts_date_cursor"] = syLoc'.date_cursor
                   /\ syCkpt'["gifts_day_skip"] = syLoc'.skip]_vars

\* C25 witness: a run has yielded three checkpoints: the first set the date
\* cursor, the second kept it and moved the skip, the third advanced it.
C25_Witness ==
    /\ syUp.entity = "gifts"
    /\ LET cs == Checkpoints(syOps)
       IN  /\ Len(cs) >= 3
           /\ cs[1][2]["gifts_date_cursor"] = cs[2][2]["gifts_date_cursor"]
           /\ cs[2][2]["gifts_day_skip"] > 0
           /\ cs[3][2]["gifts_date_cursor"] # cs[2][2]["gifts_date_cursor"]
           /\ cs[3][2]["gifts_day_skip"] = 0

(***************************************************************************)
(* SpecTerminate: uninterrupted runs of sync_gifts and sync_contacts whose *)
(* fetches all succeed, started from any persisted position: no date       *)
(* cursor, or any gifts_date_cursor and gifts_day_skip (any contacts_skip),*)
(* also beyond the end of the list.                                        *)
(***************************************************************************)
MaxStartSkip == 5

PersistedStates(entity) ==
    IF entity = "gifts"
    THEN {EmptyDict}
         \cup {[gifts_date_cursor |-> D, gifts_day_skip |-> k, gifts_total_synced |-> k] :
                  D \in {None} \cup {Some(x) : x \in 1..(MaxDate + 1)},
                  k \in 0..MaxStartSkip}
    ELSE {EmptyDict}
         \cup {[contacts_skip |-> k, contacts_total_synced |-> k] : k \in 0..MaxStartSkip}

TerminateInit ==
    /\ syUp \in GiftUpstreams
                  \cup {up \in SyncUpstreams : up.entity = "contacts"}
    /\ syState \in PersistedStates(syUp.entity)
    /\ syCkpt = syState
    /\ syPc = "start"
    /\ syLoc = NoLocals
    /\ syOps = <<>>
    /\ syEmitted = {}
    /\ syRun = [NoRun EXCEPT !.start = syState]
    /\ IdleCursor /\ IdleAdaptive /\ IdleParallel
    /\ IdleRest

TerminateNext ==
    \/ SyncStart
    \/ SyncSubmit
    \/ \E i \in SyncSlots : SyncComplete(i)
    \/ SyncRound
    \/ YieldUpsert
    \/ YieldCheckpoint
    \/ ResumeAfterCheckpoint
    \/ LoopExit
    \/ YieldFinalUpsert
    \/ SyncFinish

\* every fetch returns and the consumer keeps taking operations
SpecTerminate == TerminateInit /\ [][TerminateNext]_vars /\ WF_vars(TerminateNext)

\* the number of rounds a run can take: for each value of the date cursor
\* (none, or one of the dates of the list) the skip moves by a whole round
\* until the filtered list is exhausted
RoundBound(up) ==
    LET per == (up.n \div (SyncParallelRequests * SyncPageSize)) + 1
        dates == IF up.entity = "gifts" THEN {up.dates[j] : j \in 1..up.n} \ {0} ELSE {}
    IN  (Cardinality(dates) + 1) * per

\* C26: Termination of the round loop. For a finite unchanging list and
\* fetches that all succeed, sync_gifts started from any state (no date
\* cursor, or any persisted gifts_date_cursor and gifts_day_skip) and
\* sync_contacts started from any contacts_skip submit a bounded number of
\* rounds and end normally, also when the date cursor advances and the skip
\* is reset to 0 between rounds.
C26_RoundLoopTerminates ==
    /\ [](syRun.rounds <= RoundBound(syUp))
    /\ <>(syPc = "done")

\* C26 witness: a run of sync_gifts started from a persisted date cursor and
\* skip has ended after three rounds or more, the date cursor having advanced
\* and the skip having been reset on the way.
C26_Witness ==
    /\ syUp.entity = "gifts" /\ syPc = "done"
    /\ syRun.rounds >= 3
    /\ "gifts_date_cursor" \in DOMAIN syRun.start
    /\ syRun.start["gifts_date_cursor"] # None
    /\ syRun.start["gifts_day_skip"] > 0
    /\ \E x \in 1..Len(syOps) :
           /\ syOps[x][1] = "checkpoint"
           /\ syOps[x][2]["gifts_date_cursor"] # syRun.start["gifts_date_cursor"]
           /\ syOps[x][2]["gifts_day_skip"] = 0

StartSkip == Get(syRun.start, "contacts_skip", 0)

IsContactsRunStep == syUp.entity = "contacts" /\ syPc # "start" /\ syPc' # "start"

LegacyStates ==
    {Merge(a, b) :
        a \in {[gifts_skip |-> k, gifts_total_synced |-> k, last_sync_time |-> 1] :
                  k \in 0..MaxStartSkip},
        b \in {EmptyDict, [gifts_date_cursor |-> Some(1), gifts_day_skip |-> 0],
               [gifts_date_cursor |-> None]}}

MigrateInit ==
    /\ syUp \in {up \in SyncUpstreams : up.entity = "gifts"}
    /\ syState \in LegacyStates
    /\ syCkpt = syState
    /\ syPc = "start"
    /\ syLoc = NoLocals
    /\ syOps = <<>>
    /\ syEmitted = {}
    /\ syRun = [NoRun EXCEPT !.start = syState]
    /\ IdleCursor /\ IdleAdaptive /\ IdleParallel
    /\ IdleRest

SpecMigrate == MigrateInit /\ [][SyncNext]_vars

\* the old state is to be migrated; the gift at the old skip exists and has
\* a date
IsOldState(state) ==
    /\ "gifts_skip" \in DOMAIN state /\ state["gifts_skip"] > 0
    /\ "gifts_date_cursor" \notin DOMAIN state
GiftAtSkipDated(up, state) ==
    state["gifts_skip"] + 1 <= up.n /\ up.dates[state["gifts_skip"] + 1] # 0

\* C28: Skip-to-date migration. At the start of sync_gifts the state is
\* changed only when gifts_skip > 0 and gifts_date_cursor is absent. Then, if
\* the gift at the old skip exists and has a date, the state gets
\* gifts_date_cursor = that date and gifts_day_skip = 0, loses gifts_skip and
\* keeps every other key, gifts_total_synced included; otherwise the call
\* raises, the state and the checkpointed state are as before, and every
\* later run from that state fails the same way without yielding anything.
C28_MigrationAllOrNothing ==
    /\ [][(syUp.entity = "gifts" /\ syPc = "start" /\ syPc' # "start") =>
            IF ~IsOldState(syState) THEN syState' = syState /\ syPc' = "loop"
            ELSE IF GiftAtSkipDated(syUp, syState)
            THEN /\ syPc' = "loop"
                 /\ DOMAIN syState' = (DOMAIN syState \ {"gifts_skip"})
                                          \cup {"gifts_date_cursor", "gifts_day_skip"}
                 /\ syState'["gifts_date_cursor"]
                        = Some(syUp.dates[syState["gifts_skip"] + 1])
                 /\ syState'["gifts_day_skip"] = 0
                 /\ syState'["gifts_total_synced"] = syState["gifts_total_synced"]
                 /\ \A k \in DOMAIN syState \ {"gifts_skip"} : syState'[k] = syState[k]
            ELSE /\ syPc' = "failed"
                 /\ syState' = syState /\ syCkpt' = syCkpt
                 /\ syOps' = <<>>]_vars
    /\ [](syUp.entity = "gifts" /\ IsOldState(syRun.start)
             /\ ~GiftAtSkipDated(syUp, syRun.start) =>
                 /\ syPc \in {"start", "failed"}
                 /\ syState = syRun.start /\ syCkpt = syRun.start
                 /\ syOps = <<>> /\ syEmitted = {})

\* C28 witness: the gift at the old skip has no date; the migration has
\* failed again in a later run.
C28_Witness ==
    /\ syUp.entity = "gifts" /\ syPc = "failed"
    /\ syRun.crashes > 0
    /\ IsOldState(syState)
    /\ syState["gifts_skip"] + 1 <= syUp.n
    /\ syUp.dates[syState["gifts_skip"] + 1] = 0

\* C28 success witness: a state with gifts_skip inside the list has been
\* migrated and the run has gone on to a checkpoint.
C28_Migrated ==
    /\ syUp.entity = "gifts" /\ syPc = "checkpoint"
    /\ IsOldState(syRun.start)
    /\ syRun.start["gifts_skip"] > 1
    /\ "gifts_skip" \notin DOMAIN syCkpt

(***************************************************************************)
(* The Fundraise Up connector: src/fundraiseup/connector.py update(),      *)
(* sync_entity, sync_donations_with_supporters, SyncState and              *)
(* CheckpointManager (the same class is in sync_management.py 45-71), and  *)
(* the list call of src/fundraiseup/fundraiseup_api.py.                    *)
(***************************************************************************)
FuPageSize == 2        \* limit of one list call (the code passes limit=100)
MaxSupporters == 3     \* records of the supporters list
MaxDonations == 3      \* records of the donations list
MaxEvery == 3          \* largest CHECKPOINT_EVERY_RECORDS
MaxPageLimit == 1      \* largest PAGE_LIMIT

\* the lists in the order the API pages through them (newest first); ids
\* are opaque
SupporterIds == [i \in 1..(MaxSupporters + 1) |-> 20 - i]
DonationIds == [i \in 1..(MaxDonations + 1) |-> 40 - i]

\* donation.get("supporter"): 0 when the donation embeds no supporter,
\* else the id of the embedded supporter object (here the first supporter
\* of the list)
EmbeddedSupporters == {0, SupporterIds[1]}

FuEntities == {"supporters", "donations"}

\* SyncConfig: int(configuration.get("CHECKPOINT_EVERY_RECORDS", 10000)),
\* int(configuration.get("PAGE_LIMIT", 0) or 0)
SyncConfig ==
    [checkpoint_every_records : (-1)..MaxEvery, page_limit : 0..MaxPageLimit]

\* what get_supporters / get_donations serve: items of [id, supporter]
FuUpstreams ==
    {[supporters |-> [i \in 1..n |-> [id |-> SupporterIds[i], supporter |-> 0]],
      donations |-> [i \in 1..m |-> [id |-> DonationIds[i], supporter |-> emb[i]]]] :
        n \in 0..MaxSupporters,
        m \in 0..MaxDonations,
        emb \in [1..MaxDonations -> EmbeddedSupporters]}

LastIdKey(entity) == entity \o "_last_id"

\* SyncState.__init__: int(state.get("records_since_checkpoint", 0) or 0)
records_since_checkpoint(state) == Get(state, "records_since_checkpoint", 0)

\* SyncState.get_cursor: self._state.get(f"{entity}_last_id")
get_cursor(state, entity) == Get(state, LastIdKey(entity), None)

\* SyncState.set_cursor
set_cursor(state, entity, record_id) == Put(state, LastIdKey(entity), Some(record_id))

\* SyncState.to_checkpoint
to_checkpoint(state) ==
    [k \in {"supporters_last_id", "donations_last_id", "events_last_id",
            "records_since_checkpoint"} |->
        IF k = "records_since_checkpoint" THEN 0 ELSE Get(state, k, None)]

\* CheckpointManager.record_upserted, on the fields state and count
\* (records_since_last_checkpoint) of fu
record_upserted_nocursor(f, entity, record_id) ==
    [f EXCEPT !.count = @ + 1]

record_upserted(f, entity, record_id) ==
    [f EXCEPT !.state = set_cursor(@, entity, record_id), !.count = @ + 1]

\* CheckpointManager.should_checkpoint
should_checkpoint_gt(f) ==
    IF f.cfg.checkpoint_every_records <= 0 THEN FALSE
    ELSE f.count > f.cfg.checkpoint_every_records

should_checkpoint(f) ==
    IF f.cfg.checkpoint_every_records <= 0 THEN FALSE
    ELSE f.count >= f.cfg.checkpoint_every_records

\* list_entities: the records after starting_after (from the start when it
\* is None), at most limit of them, and has_more
list_entities(list, starting_after, limit) ==
    LET pos == IF starting_after = None THEN 0
               ELSE IndexOf([i \in 1..Len(list) |-> list[i].id], starting_after[1])
        last == Min2(pos + limit, Len(list))
    IN  [items |-> SubSeq(list, pos + 1, last), has_more |-> last < Len(list)]

\* leaving the while loop of an entity: update() goes on with the donations
\* after the supporters, and to the final checkpoint after the donations
BreakLoop(f) ==
    IF f.entity = "supporters"
    THEN [f EXCEPT !.entity = "donations",
                   !.cursor = get_cursor(f.state, "donations"),
                   !.pages_fetched = 0, !.items = <<>>, !.i = 0, !.pc = "fetch"]
    ELSE [f EXCEPT !.items = <<>>, !.i = 0, !.pc = "final"]

\* the step to the next item of the for loop
NextItem(f) ==
    [f EXCEPT !.i = @ + 1,
              !.pc = IF f.i + 1 > Len(f.items) THEN "endpage" ELSE "items"]

FuInit ==
    /\ \E up \in FuUpstreams, cfg \in SyncConfig :
           fu = [pc |-> "start", up |-> up, cfg |-> cfg,
                 ckpt |-> EmptyDict, start |-> EmptyDict, state |-> EmptyDict,
                 count |-> 0, entity |-> "supporters", cursor |-> None,
                 pages_fetched |-> 0, items |-> <<>>, has_more |-> FALSE,
                 i |-> 0, ops |-> <<>>, emitted |-> {}, crashes |-> 0,
                 fetches |-> <<>>]
    /\ retry = NoRetry /\ IdleLater
    /\ IdleCursor /\ IdleAdaptive /\ IdleParallel /\ IdleSync

fuOther == <<cursorVars, adaptiveVars, parallelVars, syncVars, retry, laterVars>>

\* update() up to the first statement of sync_entity: SyncState and
\* CheckpointManager are built from the state, the cursor is read
FuUpdate ==
    /\ fu.pc = "start"
    /\ fu' = [fu EXCEPT !.count = records_since_checkpoint(fu.state),
                        !.entity = "supporters",
                        !.cursor = get_cursor(fu.state, "supporters"),
                        !.pages_fetched = 0, !.pc = "fetch"]
    /\ UNCHANGED fuOther

\* `if page_limit > 0 and pages_fetched >= page_limit`
PageLimitReached_gt(f) ==
    f.cfg.page_limit > 0 /\ f.pages_fetched > f.cfg.page_limit

PageLimitReached(f) ==
    f.cfg.page_limit > 0 /\ f.pages_fetched >= f.cfg.page_limit

\* top of `while True`: the page limit, then fetch_page_fn; fetches lists
\* the calls of fetch_page_fn the run has made and what they returned
FuFetchPage ==
    /\ fu.pc = "fetch"
    /\ fu' = IF PageLimitReached(fu)
             THEN BreakLoop(fu)
             ELSE LET page == list_entities(fu.up[fu.entity], fu.cursor, FuPageSize)
                      f1 == [fu EXCEPT !.fetches = Append(@,
                                [entity |-> fu.entity, starting_after |-> fu.cursor,
                                 items |-> page.items, has_more |-> page.has_more])]
                  IN  IF page.items = <<>> THEN BreakLoop(f1)
                      ELSE [f1 EXCEPT !.items = page.items,
                                      !.has_more = page.has_more,
                                      !.i = 1, !.pc = "items"]
    /\ UNCHANGED fuOther

\* sync_donations_with_supporters: the supporter of the donation is upserted
\* before the donation
FuUpsertEmbedded ==
    /\ fu.pc = "items" /\ fu.entity = "donations"
    /\ fu.items[fu.i].supporter # 0
    /\ fu' = [fu EXCEPT
                 !.ops = Append(@, <<"upsert", "supporters",
                                     fu.items[fu.i].supporter, "embedded">>),
                 !.emitted = @ \cup {<<"supporters", fu.items[fu.i].supporter>>},
                 !.pc = "donation"]
    /\ UNCHANGED fuOther

\* yield op.upsert(table=entity_name, ...); record_upserted; should_checkpoint
FuUpsert ==
    /\ \/ fu.pc = "items" /\ fu.entity = "supporters"
       \/ fu.pc = "items" /\ fu.entity = "donations" /\ fu.items[fu.i].supporter = 0
       \/ fu.pc = "donation"
    /\ LET record_id == fu.items[fu.i].id
           f1 == [fu EXCEPT
                     !.ops = Append(@, <<"upsert", fu.entity, record_id, "list">>),
                     !.emitted = @ \cup {<<fu.entity, record_id>>}]
           f2 == record_upserted(f1, fu.entity, record_id)
       IN  fu' = IF should_checkpoint(f2) THEN [f2 EXCEPT !.pc = "checkpoint"]
                 ELSE NextItem(f2)
    /\ UNCHANGED fuOther

\* yield checkpoint_mgr.emit_checkpoint()
FuEmitCheckpoint ==
    /\ fu.pc = "checkpoint"
    /\ fu' = NextItem([fu EXCEPT
                          !.count = 0,
                          !.ops = Append(@, <<"checkpoint", to_checkpoint(fu.state)>>),
                          !.ckpt = to_checkpoint(fu.state)])
    /\ UNCHANGED fuOther

\* after the for loop: cursor = items[-1].get("id"); pages_fetched += 1;
\* `if not has_more: break`
FuEndPage ==
    /\ fu.pc = "endpage"
    /\ LET f1 == [fu EXCEPT !.cursor = Some(fu.items[Len(fu.items)].id),
                            !.pages_fetched = @ + 1]
       IN  fu' = IF ~fu.has_more THEN BreakLoop(f1)
                 ELSE [f1 EXCEPT !.items = <<>>, !.i = 0, !.pc = "fetch"]
    /\ UNCHANGED fuOther

\* yield checkpoint_mgr.emit_final_checkpoint()
FuFinalCheckpoint ==
    /\ fu.pc = "final"
    /\ fu' = [fu EXCEPT
                 !.ops = Append(@, <<"checkpoint", to_checkpoint(fu.state)>>),
                 !.ckpt = to_checkpoint(fu.state),
                 !.pc = "done"]
    /\ UNCHANGED fuOther

\* the run is interrupted (or has ended) and update() is called again with
\* the state of the last checkpoint
FuRerun ==
    /\ fu.pc # "start"
    /\ fu.crashes < MaxCrashes
    /\ fu' = [fu EXCEPT !.pc = "start", !.state = fu.ckpt, !.start = fu.ckpt,
                        !.count = 0, !.entity = "supporters", !.cursor = None,
                        !.pages_fetched = 0, !.items = <<>>, !.has_more = FALSE,
                        !.i = 0, !.ops = <<>>, !.crashes = @ + 1,
                        !.fetches = <<>>]
    /\ UNCHANGED fuOther

FuNext ==
    \/ FuUpdate
    \/ FuFetchPage
    \/ FuUpsertEmbedded
    \/ FuUpsert
    \/ FuEmitCheckpoint
    \/ FuEndPage
    \/ FuFinalCheckpoint
    \/ FuRerun

SpecFundraise == FuInit /\ [][FuNext]_vars

FuEvery == fu.cfg.checkpoint_every_records

\* an upsert of a record of the list being synced (the one record_upserted
\* counts), as opposed to the supporter embedded in a donation
IsListUpsert(o) == o[1] = "upsert" /\ o[4] = "list"

ListUpserts(ops, a, b) == Cardinality({j \in a..b : IsListUpsert(ops[j])})

\* position of the last checkpoint before position k, 0 when there is none
PrevCheckpoint(ops, k) ==
    LET S == {j \in 1..(k - 1) : IsCheckpoint(ops[j])}
    IN  IF S = {} THEN 0 ELSE CHOOSE j \in S : \A x \in S : x <= j

IsFinalCheckpoint(k) == fu.pc = "done" /\ k = Len(fu.ops)

\* C29: with checkpoint_every_records = N > 0 the count of records recorded
\* since the last checkpoint never exceeds N and reaches N only while a
\* checkpoint is due; every checkpoint of the entity loops comes right
\* after the upsert of the N-th record recorded since the previous
\* checkpoint, and every such upsert is followed at once by a checkpoint;
\* emit_checkpoint sets the count to 0. With N <= 0 the only checkpoint of
\* a run is the final one.
C29_CheckpointCadence ==
    /\ [](/\ FuEvery > 0 =>
               /\ fu.count <= FuEvery
               /\ (fu.count = FuEvery) <=> (fu.pc = "checkpoint")
               /\ \A k \in 1..Len(fu.ops) :
                      /\ IsCheckpoint(fu.ops[k]) /\ ~IsFinalCheckpoint(k) =>
                             /\ k > 1
                             /\ IsListUpsert(fu.ops[k - 1])
                             /\ ListUpserts(fu.ops, PrevCheckpoint(fu.ops, k) + 1, k - 1)
                                    = FuEvery
                      /\ /\ IsListUpsert(fu.ops[k])
                         /\ ListUpserts(fu.ops, PrevCheckpoint(fu.ops, k) + 1, k) = FuEvery
                         => IF k < Len(fu.ops) THEN IsCheckpoint(fu.ops[k + 1])
                            ELSE fu.pc = "checkpoint"
          /\ FuEvery <= 0 =>
               \A k \in 1..Len(fu.ops) :
                   IsCheckpoint(fu.ops[k]) => IsFinalCheckpoint(k))
    /\ [][fu.pc = "checkpoint" /\ fu'.pc # "start" =>
              /\ fu'.count = 0
              /\ fu'.ops = Append(fu.ops, <<"checkpoint", to_checkpoint(fu.state)>>)]_vars

\* C29 witness: with N = 2 a run has yielded two checkpoints in its entity
\* loops, the second one in the donations loop after a donation that embeds
\* a supporter.
C29_Witness ==
    /\ FuEvery = 2 /\ fu.entity = "donations" /\ fu.pc # "done"
    /\ Len(Checkpoints(fu.ops)) = 2
    /\ IsCheckpoint(fu.ops[Len(fu.ops)])
    /\ \E j \in 1..Len(fu.ops) : fu.ops[j][1] = "upsert" /\ fu.ops[j][4] = "embedded"

\* C29, N <= 0: a run over several records has ended with its final
\* checkpoint as the only one.
C29_WitnessDisabled ==
    /\ FuEvery <= 0 /\ fu.pc = "done"
    /\ Len(fu.ops) > 3
    /\ Len(Checkpoints(fu.ops)) = 1

\* ids of the list records of an entity upserted by ops[1..k], in order
ListUpsertIds(ops, entity, k) ==
    LET sel == SelectSeq(SubSeq(ops, 1, k),
                         LAMBDA o : IsListUpsert(o) /\ o[2] = entity)
    IN  [j \in 1..Len(sel) |-> sel[j][3]]

\* ids of all the records upserted into a table by ops[1..k], in order
TableUpsertIds(ops, table, k) ==
    LET sel == SelectSeq(SubSeq(ops, 1, k),
                         LAMBDA o : o[1] = "upsert" /\ o[2] = table)
    IN  [j \in 1..Len(sel) |-> sel[j][3]]

LastOr(ids, default) == IF ids = <<>> THEN default ELSE Some(ids[Len(ids)])

ListIds(entity) == [j \in 1..Len(fu.up[entity]) |-> fu.up[entity][j].id]

\* position in the list of an entity of the record a cursor names, 0 for None
CursorPos(entity, c) == IF c = None THEN 0 ELSE IndexOf(ListIds(entity), c[1])

\* C30 as stated: in every checkpoint <entity>_last_id is the id of the
\* record most recently upserted into the table of the entity, or the
\* loaded value when the run has upserted none.
C30_Original ==
    \A k \in 1..Len(fu.ops) :
        IsCheckpoint(fu.ops[k]) =>
            \A e \in FuEntities :
                fu.ops[k][2][LastIdKey(e)] =
                    LastOr(TableUpsertIds(fu.ops, e, k - 1), get_cursor(fu.start, e))

\* C30 (amended): in every checkpoint <entity>_last_id is the id of the
\* record of the entity's own list most recently upserted by the run, or
\* the loaded value when the run has upserted none, and events_last_id is
\* the loaded value; the list records a run has upserted before a
\* checkpoint are, in page order and without a gap, the records that follow
\* the loaded cursor, and the last of them is the one the checkpoint names.
\* The state a run would be resumed from therefore names a record such that
\* it and every record before it in page order has been upserted.
C30_CursorSafety ==
    /\ \A k \in 1..Len(fu.ops) :
           IsCheckpoint(fu.ops[k]) =>
               /\ \A e \in FuEntities :
                      LET ids == ListUpsertIds(fu.ops, e, k - 1)
                          p0 == CursorPos(e, get_cursor(fu.start, e))
                      IN  /\ fu.ops[k][2][LastIdKey(e)]
                                 = LastOr(ids, get_cursor(fu.start, e))
                          /\ ids = SubSeq(ListIds(e), p0 + 1, p0 + Len(ids))
               /\ fu.ops[k][2]["events_last_id"] = get_cursor(fu.start, "events")
    /\ \A e \in FuEntities :
           \A j \in 1..CursorPos(e, get_cursor(fu.ckpt, e)) :
               <<e, ListIds(e)[j]>> \in fu.emitted

\* C30 witness: a run resumed from a checkpoint taken inside the donations
\* has upserted further donations and yielded a checkpoint of its own, after
\* a supporter embedded in a donation was upserted.
C30_Witness ==
    /\ fu.crashes > 0
    /\ get_cursor(fu.start, "donations") # None
    /\ get_cursor(fu.start, "supporters") # None
    /\ Len(fu.ops) > 2
    /\ IsCheckpoint(fu.ops[Len(fu.ops)])
    /\ ListUpsertIds(fu.ops, "donations", Len(fu.ops)) # <<>>
    /\ \E j \in 1..Len(fu.ops) : fu.ops[j][1] = "upsert" /\ fu.ops[j][4] = "embedded"

\* C30: a run without page limit that has ended has, together with the
\* runs before it, upserted every record of both lists.
C30_NothingSkipped ==
    fu.pc = "done" /\ fu.cfg.page_limit = 0 =>
        \A e \in FuEntities :
            \A j \in 1..Len(ListIds(e)) : <<e, ListIds(e)[j]>> \in fu.emitted

\* the calls of fetch_page_fn a run has made for one entity
FetchesOf(entity) == SelectSeq(fu.fetches, LAMBDA f : f.entity = entity)

\* the step leaves the while loop of the entity being synced
LeavesLoop == fu'.pc # "start" /\ (fu'.entity # fu.entity \/ fu'.pc = "final")

\* C31: the first page of an entity is requested with starting_after = the
\* stored cursor and every later page with the id of the last item of the
\* page before; with page_limit > 0 at most page_limit pages are fetched
\* for an entity. The loop is left exactly at the loop test when page_limit
\* pages were fetched, after a fetch that returned no items, or after the
\* items of a page whose has_more was false.
C31_Pagination ==
    /\ [](\A e \in FuEntities :
              LET fs == FetchesOf(e)
              IN  /\ \A j \in 1..Len(fs) :
                         fs[j].starting_after =
                             IF j = 1 THEN get_cursor(fu.start, e)
                             ELSE Some(fs[j - 1].items[Len(fs[j - 1].items)].id)
                  /\ fu.cfg.page_limit > 0 => Len(fs) <= fu.cfg.page_limit)
    /\ [][/\ fu.pc = "fetch" /\ fu'.pc # "start" =>
               IF fu.cfg.page_limit > 0 /\ Len(FetchesOf(fu.entity)) >= fu.cfg.page_limit
               THEN LeavesLoop /\ fu'.fetches = fu.fetches
               ELSE /\ Len(fu'.fetches) = Len(fu.fetches) + 1
                    /\ LeavesLoop <=> fu'.fetches[Len(fu'.fetches)].items = <<>>
          /\ fu.pc = "endpage" /\ fu'.pc # "start" =>
               /\ LeavesLoop <=> ~fu.fetches[Len(fu.fetches)].has_more
               /\ ~LeavesLoop => fu'.pc = "fetch"
          /\ fu.pc \in {"items", "donation", "checkpoint"} => ~LeavesLoop]_vars

\* C31 witness: with page_limit = 0 the donations were fetched in two pages,
\* the second one from the last id of the first, and the loop was left
\* because has_more was false.
C31_Witness ==
    /\ fu.cfg.page_limit = 0 /\ fu.pc = "final"
    /\ Len(FetchesOf("donations")) = 2
    /\ FetchesOf("donations")[2].starting_after # None
    /\ FetchesOf("donations")[2].items # <<>>
    /\ ~FetchesOf("donations")[2].has_more

\* C31, the other two exits: the supporters were left at the page limit
\* with more pages to come, the donations after an empty page.
C31_WitnessLimitAndEmpty ==
    /\ fu.cfg.page_limit = 1 /\ fu.pc = "final"
    /\ Len(FetchesOf("supporters")) = 1 /\ FetchesOf("supporters")[1].has_more
    /\ Len(FetchesOf("donations")) = 1 /\ FetchesOf("donations")[1].items = <<>>

(***************************************************************************)
(* SpecApiGet: src/fundraiseup/fundraiseup_api.py api_get (40-68), one     *)
(* call with any max_retries and any sequence of answers of session.get.   *)
(***************************************************************************)
ApiMaxRetries == 3     \* largest max_retries passed (the default is 5)

\* resp.status_code of session.get, or a requests exception raised by it
ApiStatuses == {200, 204, 404, 429, 500, 501, 502, 503, 504}
ApiOutcomes == {Response(s) : s \in ApiStatuses} \cup {Raises(c) : c \in ConnectionFailures}

\* faulty variant: 404 is retried as well
ApiRetryable_404(status_code) == status_code \in {404, 429, 500, 502, 503, 504}

\* `resp.status_code in (429, 500, 502, 503, 504)`
ApiRetryable(status_code) == status_code \in {429, 500, 502, 503, 504}

\* faulty variant: gives up one retry early
RetriesExhausted_geq(attempt, max_retries) == attempt >= max_retries

\* `if attempt > max_retries`
RetriesExhausted(attempt, max_retries) == attempt > max_retries

FundraiseUpApiError(status) == <<"FundraiseUpApiError", status>>

ApiGetInit ==
    /\ \E m \in 0..ApiMaxRetries :
           apiGet = [pc |-> "loop", max_retries |-> m, attempt |-> 0,
                     hist |-> <<>>, exc |-> <<>>, slept |-> 0]
    /\ retry = NoRetry /\ fu = NoFu /\ og = NoOg /\ ar = NoAr
    /\ IdleCursor /\ IdleAdaptive /\ IdleParallel /\ IdleSync

\* one iteration of `while True`: session.get and what follows it
ApiGetRequest ==
    /\ apiGet.pc = "loop"
    /\ \E o \in ApiOutcomes :
           LET loc == [apiGet EXCEPT !.hist = Append(@, o)]
           IN  apiGet' =
                 IF o[1] = "raises" THEN [loc EXCEPT !.pc = "raised", !.exc = o[2]]
                 ELSE IF o[2] = 200 THEN [loc EXCEPT !.pc = "returned"]
                 ELSE IF ApiRetryable(o[2])
                 THEN LET loc2 == [loc EXCEPT !.attempt = @ + 1]
                      IN  IF RetriesExhausted(loc2.attempt, loc2.max_retries)
                          THEN [loc2 EXCEPT !.pc = "raised",
                                            !.exc = FundraiseUpApiError(o[2])]
                          ELSE [loc2 EXCEPT !.slept = @ + 1]
                 ELSE [loc EXCEPT !.pc = "raised", !.exc = FundraiseUpApiError(o[2])]
    /\ UNCHANGED <<cursorVars, adaptiveVars, parallelVars, syncVars, retry, fu, og, ar>>

ApiGetNext == ApiGetRequest

\* every session.get ends (timeout=60) and every _backoff_sleep ends
SpecApiGet == ApiGetInit /\ [][ApiGetNext]_vars /\ WF_vars(ApiGetNext)

ApiGetEnded == apiGet.pc \in {"returned", "raised"}
ApiLast == apiGet.hist[Len(apiGet.hist)]

\* C32: api_get sends at most max_retries + 1 requests and always ends. It
\* returns exactly when the last request got status 200, which is then the
\* first 200 of the call; it goes on to another request exactly after a
\* status in {429, 500, 502, 503, 504} with fewer than max_retries retries
\* made before it, and every request but the last got such a status; after
\* such a status with max_retries retries made, and after any other status
\* on that very request, it raises FundraiseUpApiError.
C32_ApiGetRetry ==
    /\ [](/\ Len(apiGet.hist) <= apiGet.max_retries + 1
          /\ \A j \in 1..(Len(apiGet.hist) - 1) :
                 apiGet.hist[j][1] = "response"
                 /\ apiGet.hist[j][2] \in {429, 500, 502, 503, 504}
          /\ apiGet.hist # <<>> /\ ApiLast[1] = "response" =>
                 /\ ApiLast[2] = 200 <=> apiGet.pc = "returned"
                 /\ ApiLast[2] \in {429, 500, 502, 503, 504} =>
                        IF Len(apiGet.hist) <= apiGet.max_retries
                        THEN apiGet.pc = "loop"
                        ELSE apiGet.pc = "raised"
                             /\ apiGet.exc = FundraiseUpApiError(ApiLast[2])
                 /\ ApiLast[2] \notin {200, 429, 500, 502, 503, 504} =>
                        apiGet.pc = "raised"
                        /\ apiGet.exc = FundraiseUpApiError(ApiLast[2]))
    /\ <>ApiGetEnded

\* C32 witness: a call with max_retries = 2 got 429, 503 and 500 and raised
\* FundraiseUpApiError after its third request.
C32_Witness ==
    /\ apiGet.pc = "raised" /\ apiGet.max_retries = 2
    /\ apiGet.hist = <<Response(429), Response(503), Response(500)>>
    /\ apiGet.exc = FundraiseUpApiError(500)

\* C32: a call that was retried twice has returned on status 200.
C32_WitnessReturned ==
    /\ apiGet.pc = "returned" /\ Len(apiGet.hist) = 3 /\ apiGet.slept = 2

(***************************************************************************)
(* The OnGage connector: src/ongage/connector.py update() (472-545) with   *)
(* sync_list (390-469) and sync_list_batch (294-315) as the source of the  *)
(* contact upserts of one list.                                            *)
(***************************************************************************)
MaxOgLists == 2        \* lists returned by get_all_lists
MaxOgContacts == 2     \* contacts one sync_list call yields
MaxOgTime == 2         \* latest value of the clock

\* lst.get("id") of the lists the account may hold (never empty or 0, which
\* `if lst.get("id")` would leave out)
OgListIds == {3, 10, 25}

\* str(n) for a natural number: its decimal digits
RECURSIVE Str(_)
Str(n) == IF n < 10 THEN <<n>> ELSE Append(Str(n \div 10), n % 10)

\* a < b for str values (Python compares strings character by character)
RECURSIVE StrLess(_, _)
StrLess(a, b) ==
    IF a = <<>> THEN b # <<>>
    ELSE IF b = <<>> THEN FALSE
    ELSE IF a[1] # b[1] THEN a[1] < b[1]
    ELSE StrLess(Tail(a), Tail(b))

\* faulty variant: the order of the API is kept
sorted_unsorted(strs) == strs

\* sorted(strs), by insertion
RECURSIVE sorted(_)
sorted(strs) ==
    IF strs = <<>> THEN <<>>
    ELSE LET rest == sorted(Tail(strs))
             x == strs[1]
             k == Cardinality({j \in 1..Len(rest) : StrLess(rest[j], x)})
         IN  SubSeq(rest, 1, k) \o <<x>> \o SubSeq(rest, k + 1, Len(rest))

\* get_all_lists: the lists in the order of the API, without duplicates
OgLists ==
    UNION {{l \in [1..n -> OgListIds] : \A i, j \in 1..n : l[i] = l[j] => i = j} :
              n \in 0..MaxOgLists}

\* `sorted([str(lst.get("id")) for lst in lists if lst.get("id")])`
ListIdsOf(lists) == sorted([j \in 1..Len(lists) |-> Str(lists[j])])

\* the state dict of a checkpoint of update()
OgState(completed_lists, last_sync_time) ==
    [completed_lists |-> completed_lists, last_sync_time |-> last_sync_time]

\* state.get("completed_lists", []), state.get("last_sync_time")
OgCompleted(state) == Get(state, "completed_lists", <<>>)

\* faulty variant: the loaded sync time is dropped
OgLastSyncTime_none(state) == None

OgLastSyncTime(state) == Get(state, "last_sync_time", None)

OgInit ==
    /\ \E lists \in OgLists :
           og = [pc |-> "start", lists |-> lists, ckpt |-> EmptyDict,
                 start |-> EmptyDict, list_ids |-> <<>>,
                 completed_lists |-> <<>>, last_sync_time |-> None,
                 i |-> 0, todo |-> 0, ops |-> <<>>, calls |-> <<>>,
                 now |-> 0, crashes |-> 0]
    /\ retry = NoRetry /\ fu = NoFu /\ apiGet = NoApiGet /\ ar = NoAr
    /\ IdleCursor /\ IdleAdaptive /\ IdleParallel /\ IdleSync

ogOther == <<cursorVars, adaptiveVars, parallelVars, syncVars, retry, fu, apiGet, ar>>

\* update() up to the first yield: get_all_lists, list_ids, the cursors
OgUpdate ==
    /\ og.pc = "start"
    /\ og' = [og EXCEPT !.list_ids = ListIdsOf(og.lists),
                        !.completed_lists = OgCompleted(og.start),
                        !.last_sync_time = OgLastSyncTime(og.start),
                        !.i = 1, !.pc = "lists"]
    /\ UNCHANGED ogOther

\* get_all_lists raises (response.raise_for_status)
OgGetAllListsRaises ==
    /\ og.pc = "start"
    /\ og' = [og EXCEPT !.pc = "failed"]
    /\ UNCHANGED ogOther

\* `for lst in lists: yield op.upsert(table="lists", ...)`
OgUpsertList ==
    /\ og.pc = "lists" /\ og.i <= Len(og.lists)
    /\ og' = [og EXCEPT !.ops = Append(@, <<"upsert", "lists", Str(og.lists[og.i])>>),
                        !.i = @ + 1]
    /\ UNCHANGED ogOther

\* the first loop is over: `for list_id in list_ids`
OgListsDone ==
    /\ og.pc = "lists" /\ og.i > Len(og.lists)
    /\ og' = [og EXCEPT !.i = 1, !.pc = "list"]
    /\ UNCHANGED ogOther

InSeq(x, seq) == \E j \in 1..Len(seq) : seq[j] = x

\* `if list_id in completed_lists: continue`
OgSkipList ==
    /\ og.pc = "list" /\ og.i <= Len(og.list_ids)
    /\ InSeq(og.list_ids[og.i], og.completed_lists)
    /\ og' = [og EXCEPT !.i = @ + 1]
    /\ UNCHANGED ogOther

\* sync_list(configuration, list_id, last_sync_time, list_count) up to its
\* first yield: the search is created, awaited and exported
OgSyncList ==
    /\ og.pc = "list" /\ og.i <= Len(og.list_ids)
    /\ ~InSeq(og.list_ids[og.i], og.completed_lists)
    /\ \E n \in 0..MaxOgContacts :
           og' = [og EXCEPT !.calls = Append(@, <<og.list_ids[og.i], og.last_sync_time>>),
                            !.todo = n, !.pc = "contacts"]
    /\ UNCHANGED ogOther

\* a request of sync_list_batch raises before anything is yielded
OgSyncListRaises ==
    /\ og.pc = "list" /\ og.i <= Len(og.list_ids)
    /\ ~InSeq(og.list_ids[og.i], og.completed_lists)
    /\ og' = [og EXCEPT !.calls = Append(@, <<og.list_ids[og.i], og.last_sync_time>>),
                        !.pc = "failed"]
    /\ UNCHANGED ogOther

\* `for contact in contacts: yield op.upsert(table="contacts", ...)`
OgUpsertContact ==
    /\ og.pc = "contacts" /\ og.todo > 0
    /\ og' = [og EXCEPT
                 !.ops = Append(@, <<"upsert", "contacts", og.list_ids[og.i], og.todo>>),
                 !.todo = @ - 1]
    /\ UNCHANGED ogOther

\* completed_lists.append(list_id); yield op.checkpoint(...)
OgListCheckpoint ==
    /\ og.pc = "contacts" /\ og.todo = 0
    /\ LET completed == Append(og.completed_lists, og.list_ids[og.i])
           state == OgState(completed, og.last_sync_time)
       IN  og' = [og EXCEPT !.completed_lists = completed,
                            !.ops = Append(@, <<"checkpoint", state>>),
                            !.ckpt = state,
                            !.i = @ + 1, !.pc = "list"]
    /\ UNCHANGED ogOther

\* after the loop: current_sync_time = int(datetime.utcnow().timestamp())
\* and the final checkpoint
OgFinalCheckpoint ==
    /\ og.pc = "list" /\ og.i > Len(og.list_ids)
    /\ \E current_sync_time \in og.now..MaxOgTime :
           LET state == OgState(<<>>, Some(current_sync_time))
           IN  og' = [og EXCEPT !.ops = Append(@, <<"checkpoint", state>>),
                                !.ckpt = state, !.now = current_sync_time,
                                !.pc = "done"]
    /\ UNCHANGED ogOther

\* the run is interrupted, has failed or has ended, and update() is called
\* again, later, with the state of the last checkpoint
OgRerun ==
    /\ og.pc # "start"
    /\ og.crashes < MaxCrashes
    /\ \E t \in og.now..MaxOgTime :
           og' = [og EXCEPT !.pc = "start", !.start = og.ckpt, !.list_ids = <<>>,
                            !.completed_lists = <<>>, !.last_sync_time = None,
                            !.i = 0, !.todo = 0, !.ops = <<>>, !.calls = <<>>,
                            !.now = t, !.crashes = @ + 1]
    /\ UNCHANGED ogOther

OgNext ==
    \/ OgUpdate
    \/ OgGetAllListsRaises
    \/ OgUpsertList
    \/ OgListsDone
    \/ OgSkipList
    \/ OgSyncList
    \/ OgSyncListRaises
    \/ OgUpsertContact
    \/ OgListCheckpoint
    \/ OgFinalCheckpoint
    \/ OgRerun

SpecOnGage == OgInit /\ [][OgNext]_vars

\* the list ids passed to sync_list by the run, in order
OgSynced == [m \in 1..Len(og.calls) |-> og.calls[m][1]]

\* the list ids the run has to sync: the sorted ids that the loaded
\* completed_lists does not hold
OgToSync ==
    SelectSeq(sorted([j \in 1..Len(og.lists) |-> Str(og.lists[j])]),
              LAMBDA id : ~InSeq(id, Get(og.start, "completed_lists", <<>>)))

IsContactUpsertOf(o, list_id) ==
    o[1] = "upsert" /\ o[2] = "contacts" /\ o[3] = list_id

\* positions of the checkpoints of the run whose completed_lists holds list_id
OgCheckpointsOf(list_id) ==
    {c \in 1..Len(og.ops) :
        IsCheckpoint(og.ops[c]) /\ InSeq(list_id, og.ops[c][2].completed_lists)}

\* the sync_list call number m has returned
OgCallReturned(m) == m < Len(og.calls) \/ og.pc \in {"list", "done"}

\* C33: a run of update never passes to sync_list a list id held by the
\* completed_lists of the loaded state; the ids it passes are, in this
\* order and each once, the first of the remaining ids in ascending order
\* of the id strings, and all of them when the run completes. After each
\* call that returned, a checkpoint whose completed_lists holds the id has
\* been yielded after every contact upsert of that list and before every
\* contact upsert of a list synced later.
C33_ResumeByList ==
    /\ og.pc # "start" =>
           /\ \A m \in 1..Len(OgSynced) :
                  ~InSeq(OgSynced[m], Get(og.start, "completed_lists", <<>>))
           /\ Len(OgSynced) <= Len(OgToSync)
           /\ OgSynced = SubSeq(OgToSync, 1, Len(OgSynced))
           /\ \A m, n \in 1..Len(OgSynced) : m < n => StrLess(OgSynced[m], OgSynced[n])
           /\ og.pc = "done" => OgSynced = OgToSync
    /\ \A m \in 1..Len(OgSynced) :
           IF OgCallReturned(m)
           THEN \E c \in OgCheckpointsOf(OgSynced[m]) :
                    /\ \A k \in 1..Len(og.ops) :
                           IsContactUpsertOf(og.ops[k], OgSynced[m]) => k < c
                    /\ \A n \in (m + 1)..Len(OgSynced), k \in 1..Len(og.ops) :
                           IsContactUpsertOf(og.ops[k], OgSynced[n]) => c < k
           ELSE OgCheckpointsOf(OgSynced[m]) = {}

\* C33 witness: a run resumed with list "10" completed has skipped it,
\* upserted contacts of another list and ended.
C33_Witness ==
    /\ og.crashes > 0 /\ og.pc = "done"
    /\ Get(og.start, "completed_lists", <<>>) = <<Str(10)>>
    /\ Len(og.lists) = 2
    /\ Len(OgSynced) = 1
    /\ \E k \in 1..Len(og.ops) : IsContactUpsertOf(og.ops[k], OgSynced[1])

\* C33: a first run has synced list "10" before list "3", with contacts of
\* both, though the API returned 3 first.
C33_WitnessOrder ==
    /\ og.crashes = 0 /\ og.pc = "done" /\ og.lists = <<3, 10>>
    /\ OgSynced = <<Str(10), Str(3)>>
    /\ \E j, k \in 1..Len(og.ops) :
           IsContactUpsertOf(og.ops[j], Str(10)) /\ IsContactUpsertOf(og.ops[k], Str(3))

\* C34: every checkpoint of a run but the final one carries the
\* last_sync_time of the loaded state (None when it holds none) and a
\* non-empty completed_lists; a run that completes ends with the final
\* checkpoint, which carries an empty completed_lists and the time of the
\* clock at the end of the run as last_sync_time.
C34_SyncTimeHandling ==
    /\ \A k \in 1..Len(og.ops) :
           IsCheckpoint(og.ops[k]) =>
               IF og.pc = "done" /\ k = Len(og.ops)
               THEN /\ og.ops[k][2].completed_lists = <<>>
                    /\ og.ops[k][2].last_sync_time = Some(og.now)
               ELSE /\ og.ops[k][2].last_sync_time = Get(og.start, "last_sync_time", None)
                    /\ og.ops[k][2].completed_lists # <<>>
    /\ og.pc = "done" => og.ops # <<>> /\ IsCheckpoint(og.ops[Len(og.ops)])

\* C34 witness: an incremental run has yielded a per-list checkpoint with
\* the loaded sync time and ended with a final checkpoint of a later time.
C34_Witness ==
    /\ og.pc = "done"
    /\ Get(og.start, "last_sync_time", None) # None
    /\ Len(Checkpoints(og.ops)) >= 2
    /\ og.now > Get(og.start, "last_sync_time", None)[1]

(***************************************************************************)
(* SpecAdaptiveRetry: src/ongage/sync.py fetch_contacts_with_adaptive_retry *)
(* (50-108), one call for one batch with its recursive calls; ar.stack     *)
(* holds the frames of the calls in progress, the innermost last.          *)
(***************************************************************************)
INITIAL_BATCH_MONTHS == 3
SECONDS_PER_MONTH == 30 * 24 * 60 * 60
MIN_BATCH_SECONDS == 14 * 24 * 60 * 60
MAX_RETRIES_PER_BATCH == 3

\* end_time - start_time of the batch: the one sync_list_batched passes
\* (sync.py 133), and sizes at and around the minimum
BatchSizes ==
    {0, MIN_BATCH_SECONDS, MIN_BATCH_SECONDS + 1, 2 * MIN_BATCH_SECONDS + 3,
     INITIAL_BATCH_MONTHS * SECONDS_PER_MONTH}

BatchStarts == {0, 1700000001}

\* SearchResult of fetch_contacts, or "raises" when one of its requests
\* raises (response.raise_for_status in src/ongage/api.py)
FetchResults == {"success", "timeout", "failed", "raises"}

\* the contacts a successful search of [start_time, end_time) exports,
\* named by their window
ContactsOf(start_time, end_time) == <<<<start_time, end_time>>>>

\* a call of fetch_contacts_with_adaptive_retry: its arguments and locals;
\* at is "fetch" (in the while loop), "first" or "second" (waiting for the
\* recursive call on that half)
Frame(start_time, end_time) ==
    [start_time |-> start_time, end_time |-> end_time, retries |-> 0,
     at |-> "fetch", first_half |-> <<>>]

\* faulty variant: the second half starts one second late
MidTime_gap(start_time, end_time) == start_time + (end_time - start_time) \div 2 + 1

\* new_batch_size = batch_size // 2; mid_time = start_time + new_batch_size
MidTime(start_time, end_time) == start_time + (end_time - start_time) \div 2

\* faulty variant: a batch of the minimum size is split once more
AtMinimum_lt(batch_size) == batch_size < MIN_BATCH_SECONDS

\* `if batch_size <= MIN_BATCH_SECONDS`
AtMinimum(batch_size) == batch_size <= MIN_BATCH_SECONDS

AdaptiveRetryInit ==
    /\ \E s \in BatchStarts, size \in BatchSizes :
           ar = [pc |-> "running", batch |-> <<s, s + size>>,
                 stack |-> <<Frame(s, s + size)>>, ret |-> None,
                 result |-> <<>>, exc |-> <<>>,
                 fetched |-> 0, splits |-> 0, last |-> <<>>]
    /\ retry = NoRetry /\ fu = NoFu /\ apiGet = NoApiGet /\ og = NoOg
    /\ IdleCursor /\ IdleAdaptive /\ IdleParallel /\ IdleSync

arOther == <<cursorVars, adaptiveVars, parallelVars, syncVars, retry, fu, apiGet, og>>

ArTop == ar.stack[Len(ar.stack)]

\* one iteration of `while retries < MAX_RETRIES_PER_BATCH` of the
\* innermost call: fetch_contacts and what follows it, up to the return or
\* the first recursive call. fetched counts the calls of fetch_contacts,
\* splits the executions of `retries += 1`; last is the last fetch.
ArFetch ==
    /\ ar.pc = "running" /\ ar.ret = None
    /\ ArTop.at = "fetch" /\ ArTop.retries < MAX_RETRIES_PER_BATCH
    /\ \E result \in FetchResults :
           LET f == ArTop
               a == [ar EXCEPT !.fetched = @ + 1,
                               !.last = <<f.start_time, f.end_time, result>>]
               n == Len(ar.stack)
           IN  ar' =
                 IF result = "raises"
                 THEN [a EXCEPT !.pc = "raised", !.exc = RequestException("HTTPError")]
                 ELSE IF result = "success"
                 THEN [a EXCEPT !.ret = Some(ContactsOf(f.start_time, f.end_time))]
                 ELSE IF result = "failed" THEN [a EXCEPT !.ret = Some(<<>>)]
                 ELSE IF AtMinimum(f.end_time - f.start_time)
                 THEN [a EXCEPT !.ret = Some(<<>>)]
                 ELSE [a EXCEPT
                          !.splits = @ + 1,
                          !.stack = Append([ar.stack EXCEPT ![n].retries = @ + 1,
                                                            ![n].at = "first"],
                                           Frame(f.start_time,
                                                 MidTime(f.start_time, f.end_time)))]
    /\ UNCHANGED arOther

\* the innermost call returns ar.ret to its caller: the caller keeps the
\* first half and calls itself on the second, or returns
\* first_half + second_half; the outermost call returns to sync_list_batched
ArReturn ==
    /\ ar.pc = "running" /\ ar.ret # None
    /\ LET n == Len(ar.stack)
           v == ar.ret[1]
       IN  ar' =
             IF n = 1 THEN [ar EXCEPT !.pc = "returned", !.result = v,
                                      !.stack = <<>>, !.ret = None]
             ELSE LET p == ar.stack[n - 1]
                  IN  IF p.at = "first"
                      THEN [ar EXCEPT
                               !.ret = None,
                               !.stack = Append([SubSeq(ar.stack, 1, n - 1) EXCEPT
                                                    ![n - 1].first_half = v,
                                                    ![n - 1].at = "second"],
                                                Frame(MidTime(p.start_time, p.end_time),
                                                      p.end_time))]
                      ELSE [ar EXCEPT !.ret = Some(p.first_half \o v),
                                      !.stack = SubSeq(ar.stack, 1, n - 1)]
    /\ UNCHANGED arOther

\* (sync.py 107-108, after the loop, is never reached: every path through
\* the body of the loop returns.)
AdaptiveRetryNext == ArFetch \/ ArReturn

\* every request of fetch_contacts ends, wait_for_search_completion gives
\* up after max_wait, and every sleep ends
SpecAdaptiveRetry ==
    AdaptiveRetryInit /\ [][AdaptiveRetryNext]_vars /\ WF_vars(AdaptiveRetryNext)

ArEnded == ar.pc \in {"returned", "raised"}

\* the windows of seq follow one another inside [lo, hi) without overlap
RECURSIVE InOrderWithin(_, _, _)
InOrderWithin(seq, lo, hi) ==
    IF seq = <<>> THEN TRUE
    ELSE /\ lo <= seq[1][1] /\ seq[1][1] <= seq[1][2] /\ seq[1][2] <= hi
         /\ InOrderWithin(Tail(seq), seq[1][2], hi)

\* C35 as stated: the call returns for every window, that is, it never
\* ends by raising.
C35_Original == ar.pc # "raised"

\* C35 (amended): every call of fetch_contacts_with_adaptive_retry ends: it
\* returns unless a request of fetch_contacts raises, and then the
\* exception leaves the outermost call. A call waiting for a recursive call
\* has a window larger than MIN_BATCH_SECONDS, and the recursive call is on
\* [start, mid) for the first half and [mid, end) for the second, with
\* mid = start + (end - start) // 2, so start < mid < end; the value it
\* returns is the first half's contacts followed by the second's, so the
\* windows of the returned contacts follow one another inside the window
\* of the call. A FAILED search, and a timeout on a window of at most
\* MIN_BATCH_SECONDS, make the call return the empty list.
C35_AdaptiveRetry ==
    /\ [](/\ \A k \in 1..(Len(ar.stack) - 1) :
                 LET p == ar.stack[k]
                     c == ar.stack[k + 1]
                     mid == p.start_time + (p.end_time - p.start_time) \div 2
                 IN  /\ p.at \in {"first", "second"}
                     /\ p.end_time - p.start_time > MIN_BATCH_SECONDS
                     /\ p.start_time < mid /\ mid < p.end_time
                     /\ p.at = "first" =>
                            c.start_time = p.start_time /\ c.end_time = mid
                     /\ p.at = "second" =>
                            /\ c.start_time = mid /\ c.end_time = p.end_time
                            /\ InOrderWithin(p.first_half, p.start_time, mid)
          /\ ar.pc = "running" /\ ar.stack # <<>> /\ ar.ret # None =>
                 /\ InOrderWithin(ar.ret[1], ArTop.start_time, ArTop.end_time)
                 /\ ArTop.at = "fetch" =>
                        /\ ar.last[3] \in {"success", "timeout", "failed"}
                        /\ ar.last[3] = "failed" => ar.ret[1] = <<>>
                        /\ ar.last[3] = "timeout" =>
                               /\ ar.ret[1] = <<>>
                               /\ ArTop.end_time - ArTop.start_time <= MIN_BATCH_SECONDS
                        /\ ar.last[3] = "success" =>
                               ar.ret[1] = ContactsOf(ArTop.start_time, ArTop.end_time)
          /\ ar.pc = "returned" => InOrderWithin(ar.result, ar.batch[1], ar.batch[2])
          /\ ar.pc = "raised" => ar.last[3] = "raises")
    /\ <>ArEnded

\* C35 witness: a batch of three months timed out, was split, and the call
\* has returned the contacts of two windows that do not touch, after a
\* failed search and a timeout at the minimum size in between.
C35_Witness ==
    /\ ar.pc = "returned"
    /\ ar.batch[2] - ar.batch[1] = INITIAL_BATCH_MONTHS * SECONDS_PER_MONTH
    /\ Len(ar.result) >= 2
    /\ ar.result[1][2] < ar.result[2][1]
    /\ ar.splits >= 3

\* C36 as stated: no more than MAX_RETRIES_PER_BATCH retries are made for
\* one batch (counted as executions of `retries += 1`, each of which is
\* followed by two fetches of a smaller window).
C36_Original == ar.splits <= MAX_RETRIES_PER_BATCH

\* what holds instead: retries never exceeds 1 in any call, so the test
\* `retries < MAX_RETRIES_PER_BATCH` never ends a loop
C36_RetriesPerCall ==
    \A k \in 1..Len(ar.stack) : ar.stack[k].retries <= 1

SetMax(S) == CHOOSE x \in S : \A y \in S : y <= x

\* C1: Monotonic cursor. After any sequence of advance calls last_id has not
\* decreased in the last call, it equals the maximum of the initial last_id
\* and every new_max_id passed (None only when the cursor started at None and
\* no call was made), and total_synced is the initial total plus the counts.
C1_MonotonicCursor ==
    LET seen == cHist.ids \cup (IF cHist.init.last_id = None THEN {}
                                 ELSE {Val(cHist.init.last_id)})
    IN  /\ (cHist.prev.last_id # None =>
               /\ cursor.last_id # None
               /\ Val(cursor.last_id) >= Val(cHist.prev.last_id))
        /\ cursor.last_id = (IF seen = {} THEN None ELSE Some(SetMax(seen)))
        /\ cursor.total_synced = cHist.init.total_synced + cHist.counts
        /\ (cHist.calls > 0 => cursor.total_synced >= cHist.prev.total_synced)

\* C1 witness: a later call passed an id below the cursor and a positive count.
C1_Witness ==
    /\ cHist.calls >= 2
    /\ cursor.last_id # None
    /\ \E i \in cHist.ids : i < Val(cursor.last_id)
    /\ cHist.prev.last_id = cursor.last_id
    /\ cursor.total_synced > cHist.prev.total_synced

====
